---- MODULE Spec2Model ----
(***************************************************************************)
(* The global barrier manager of the meta node                             *)
(* (src/meta/src/barrier/mod.rs): the scheduled-barrier buffer, the main   *)
(* loop of GlobalBarrierManager::run, the detached inject/collect tasks,   *)
(* the in-order commit pass and the drain-then-recover step.               *)
(***************************************************************************)
EXTENDS Integers, Sequences, FiniteSets, TLC

\* ------------------------------------------------------------------ bounds
\* env.opts.in_flight_barrier_nums: the configured cap on InFlight barriers.
in_flight_barrier_nums == 2
\* The loop allocates at most MaxEpoch epochs after the one it starts from.
MaxEpoch == 3
\* Number of Notifier objects the submission API creates in one run.
MaxNotifiers == 1
\* Number of schedule_command calls in a run without faults.
MaxScheduled == 2
\* Number of rows appended to a RowNumberState.
MaxRows == 3
\* Worker nodes of the node_map of one barrier.
MaxWorkers == 2

\* ------------------------------------------------------ program constants
INVALID_EPOCH == 0

Commands == {"Plain", "CreateMaterializedView", "DropMaterializedView"}

\* Actors a CreateMaterializedView command tracks after its barrier is collected.
Actors == {1, 2}

NotifierIds == 1..MaxNotifiers

\* The Notifier objects of the schedule_command calls of a run without faults.
ScheduledIds == 1..MaxScheduled

\* The Notifiers of wait_for_next_barrier_to_collect calls made next to those.
AttachIds == (MaxScheduled + 1)..(MaxScheduled + MaxNotifiers)

\* All Notifiers.
AllIds == NotifierIds \cup ScheduledIds \cup AttachIds

\* The StateKeys appended to a RowNumberState (the pk of create_state_key).
StateKeys == {100, 102, 103}

\* Option::None
None == -1

VARIABLES
    enable_recovery,        \* GlobalBarrierManager.enable_recovery
    buffer,                 \* ScheduledBarriers.buffer: FIFO of (Command, notifiers)
    in_flight_prev_epoch,   \* BarrierManagerState.in_flight_prev_epoch
    is_recovery,            \* ConcurrentControl.is_recovery
    is_build_actor,         \* ConcurrentControl.is_build_actor
    command_ctx_queue,      \* ConcurrentControl.command_ctx_queue: deque of EpochNode
    tracker,                \* CreateMviewProgressTracker
    tasks,                  \* spawned tasks that have not yet sent on barrier_complete_tx
    barrier_complete_rx,    \* the unbounded completion channel, FIFO
    loop,                   \* the main loop: "select", "panicked", "returned"
    notified,               \* history, per Notifier: the notify_* calls on it and its barrier
    commit_epoch_calls,     \* prev_epoch arguments of hummock_manager.commit_epoch, in call order
    callers,                \* per Notifier: the API call that made it and where that call stands
    shutdown_rx,            \* the oneshot shutdown channel of run(): "Pending", "Ready"
    row_number_state,       \* a RowNumberState and the history of the calls made on it
    persisted_prev_epoch,   \* the in_flight_prev_epoch last written to the meta store
    panic_err,              \* the error named by the panic of line 612 ("None": no such panic)
    inject_call,            \* one call of inject_and_send_err, worker by worker
    wait_one_fut            \* the wait_one future of the select: "None", "Awaiting", "Woken"

vars == <<enable_recovery, buffer, in_flight_prev_epoch, is_recovery, is_build_actor,
          command_ctx_queue, tracker, tasks, barrier_complete_rx, loop,
          notified, commit_epoch_calls, callers, shutdown_rx, row_number_state,
          persisted_prev_epoch, panic_err, inject_call, wait_one_fut>>

\* --------------------------------------------------------------- helpers
\* Epoch::next: strictly larger than its argument.
next(e) == e + 1

SeqToSet(q) == {q[i] : i \in 1..Len(q)}

\* Number of nodes of the pipeline whose state is InFlight.
InFlightCount(q) == Cardinality({i \in 1..Len(q) : q[i].states = "InFlight"})

\* ---------------------------------------------------------------- Notifier
\* History of a Notifier: how often each notify_* method ran on it; the
\* barrier it belongs to (its curr_epoch and prev_epoch; curr_epoch 0: still
\* scheduled; -1: not yet created; -2: its entry took the empty-topology
\* path); and what inject, collect, commit_epoch and post_collect returned
\* for that barrier ("None": not run); and the error
\* notify_collection_failed was called with.
NewNotifier ==
    [to_send |-> 0, collected |-> 0, failed |-> 0, finished |-> 0,
     curr_epoch |-> 0, prev_epoch |-> 0,
     inject |-> "None", collect |-> "None", commit_epoch |-> "None", post_collect |-> "None",
     failed_err |-> "None"]

NoNotifier == [NewNotifier EXCEPT !.curr_epoch = -1]

\* History: field f of every notifier of ns becomes v.
Noted(nf, ns, f, v) ==
    [n \in DOMAIN nf |-> IF n \in ns THEN [nf[n] EXCEPT ![f] = v] ELSE nf[n]]

\* Notifier::notify_to_send / notify_collected / notify_finished /
\* notify_collection_failed run on every notifier of ns.
Notify(nf, ns, slot) ==
    [n \in DOMAIN nf |-> IF n \in ns THEN [nf[n] EXCEPT ![slot] = @ + 1] ELSE nf[n]]

\* Unused Notifier ids.
FreshIds == {n \in NotifierIds : notified[n].curr_epoch = -1}

\* The API call that created a Notifier and waits on its channels: which
\* call, whether its command is a CreateMaterializedView, where it stands
\* ("collect_rx", "finish_rx": awaiting that channel; "Ok", "Err": returned;
\* "panicked"), and how often pin_snapshot succeeded and unpin_snapshot was
\* called in it.
Caller(api, command) ==
    [api |-> api, is_create_mv |-> command = "CreateMaterializedView",
     pc |-> "collect_rx", pins |-> 0, unpins |-> 0]

NoCaller == [Caller("None", "Plain") EXCEPT !.pc = "None"]

\* ------------------------------------------------------- ScheduledBarriers
\* As pop_or_default, leaving the entry it returns at the front of the buffer.
pop_or_default_peek(buf) ==
    IF buf = <<>>
    THEN [scheduled |-> [command |-> "Plain", notifiers |-> {}], buffer |-> <<>>]
    ELSE [scheduled |-> Head(buf), buffer |-> buf]

\* As pop_or_default, taking the entry pushed last.
pop_or_default_back(buf) ==
    IF buf = <<>>
    THEN [scheduled |-> [command |-> "Plain", notifiers |-> {}], buffer |-> <<>>]
    ELSE [scheduled |-> buf[Len(buf)], buffer |-> SubSeq(buf, 1, Len(buf) - 1)]

\* ScheduledBarriers::pop_or_default
pop_or_default(buf) ==
    IF buf = <<>>
    THEN [scheduled |-> [command |-> "Plain", notifiers |-> {}], buffer |-> <<>>]
    ELSE [scheduled |-> Head(buf), buffer |-> Tail(buf)]

\* ScheduledBarriers::push
push(buf, scheduled) == Append(buf, scheduled)

\* As attach_notifiers, the checkpoint entry made for an empty buffer not
\* taking the new notifiers.
attach_notifiers_bare(buf, new_notifiers) ==
    IF buf # <<>>
    THEN [buf EXCEPT ![1].notifiers = @ \cup new_notifiers]
    ELSE <<[command |-> "Plain", notifiers |-> {}]>>

\* As attach_notifiers, the notifiers going to the entry pushed last.
attach_notifiers_to_last(buf, new_notifiers) ==
    IF buf # <<>>
    THEN [buf EXCEPT ![Len(buf)].notifiers = @ \cup new_notifiers]
    ELSE <<[command |-> "Plain", notifiers |-> new_notifiers]>>

\* ScheduledBarriers::attach_notifiers
attach_notifiers(buf, new_notifiers) ==
    IF buf # <<>>
    THEN [buf EXCEPT ![1].notifiers = @ \cup new_notifiers]
    ELSE <<[command |-> "Plain", notifiers |-> new_notifiers]>>

\* ScheduledBarriers::wait_one when first polled, lines 91-98: ready when the
\* buffer has an entry; otherwise a receiver is subscribed under the read
\* lock and the future awaits changed().
wait_one(buf) == IF Len(buf) > 0 THEN "Ready" ELSE "Awaiting"

\* As abort, draining the first entry only.
abort_first(buf, nf) ==
    IF buf = <<>> THEN [buffer |-> buf, notified |-> nf]
    ELSE [buffer |-> Tail(buf),
          notified |-> Noted(Notify(nf, Head(buf).notifiers, "failed"),
                             Head(buf).notifiers, "failed_err", "Scheduled barrier abort.")]

\* ScheduledBarriers::abort: every entry is popped and each of its notifiers
\* gets notify_collection_failed with the abort error.
abort(buf, nf) ==
    LET drained == UNION {buf[i].notifiers : i \in 1..Len(buf)}
    IN  [buffer |-> <<>>,
         notified |-> Noted(Notify(nf, drained, "failed"),
                            drained, "failed_err", "Scheduled barrier abort.")]

\* watch::Sender::send on changed_tx, as the receiver of a pending wait_one
\* sees it (lines 95-98): a receiver that awaits changed() is woken; with no
\* receiver subscribed the send changes nothing.
changed_tx_send(fut) == IF fut = "Awaiting" THEN "Woken" ELSE fut

\* As notify_changed, the test of line 105 being len() == 2.
notify_changed_on_second(buf, fut) ==
    IF Len(buf) = 2 THEN changed_tx_send(fut) ELSE fut

\* ScheduledBarriers::push, lines 105-107, and attach_notifiers, lines
\* 119-121, on the buffer after push_back: the wake-up is sent when the
\* entry is the only one.
notify_changed(buf, fut) ==
    IF Len(buf) = 1 THEN changed_tx_send(fut) ELSE fut

\* ------------------------------------------------------- ConcurrentControl
\* As can_inject_barrier, admitting one barrier more (> for >=).
can_inject_barrier_off_by_one(recovering, building, q, nums) ==
    ~(recovering \/ building \/ InFlightCount(q) > nums)

\* ConcurrentControl::can_inject_barrier
can_inject_barrier(recovering, building, q, nums) ==
    ~(recovering \/ building \/ InFlightCount(q) >= nums)


\* ------------------------------------------------------------- Command
\* Command::actors_to_track
actors_to_track(command) ==
    IF command = "CreateMaterializedView" THEN Actors ELSE {}

\* --------------------------------------------- CreateMviewProgressTracker
\* CreateMviewProgressTracker::add
tracker_add(s, epoch, actors, notifiers) ==
    IF actors = {}
    THEN [s EXCEPT !.notified = Notify(@, notifiers, "finished")]
    ELSE [s EXCEPT !.tracker =
              @ \cup {[epoch |-> epoch, actors |-> actors, notifiers |-> notifiers]}]

\* CreateMviewProgressTracker::update, for every actor reported done in progress
tracker_update(s, progress) ==
    LET done == {t \in s.tracker : t.actors \subseteq progress}
    IN  [s EXCEPT !.tracker = {[t EXCEPT !.actors = @ \ progress] : t \in s.tracker \ done},
                  !.notified = Notify(@, UNION {t.notifiers : t \in done}, "finished")]

\* ------------------------------------------------------------- recovery
\* GlobalBarrierManager::recovery(prev_epoch): the
\* (new_epoch, actors_to_track, create_mview_progress) it returns, when the
\* rebuilt fleet has the actors of `tracked` still to track.
recovery(prev_epoch, tracked) ==
    [new_epoch |-> next(prev_epoch), actors_to_track |-> tracked,
     create_mview_progress |-> {}]

\* What the rebuilt fleet may still have to track.
RecoveredActors == {{}, Actors}

\* --------------------------------------------------- the commit pass
\* The faults the external calls of one commit pass may raise: none, or
\* commit_epoch(epoch) fails, or post_collect of the barrier with that
\* prev_epoch fails.
Faults(q) ==
    {[kind |-> "none", epoch |-> -1]} \cup
    {[kind |-> k, epoch |-> q[i].prev_epoch] :
        k \in {"commit_epoch", "post_collect"}, i \in 1..Len(q)}

\* As pop_committed, taking an error result for an empty list of responses
\* instead of unwrapping it.
pop_committed_lenient(s) ==
    LET node == Head(s.queue)
        s1 == [s EXCEPT !.queue = Tail(@),
                        !.notified = Notify(@, node.notifiers, "collected")]
        s2 == tracker_add(s1, node.curr_epoch, actors_to_track(node.command), node.notifiers)
        s3 == tracker_update(s2, node.progress)
    IN  IF node.command # "Plain" THEN [s3 EXCEPT !.is_build_actor = FALSE] ELSE s3

\* As pop_committed, handing the notifiers to the tracker without having
\* notified collected.
pop_committed_not_collected(s) ==
    LET node == Head(s.queue)
        s1 == [s EXCEPT !.queue = Tail(@)]
    IN  IF node.result # "Ok"
        THEN [s1 EXCEPT !.loop = "panicked", !.ret = "Panic"]
        ELSE
          LET s2 == tracker_add(s1, node.curr_epoch, actors_to_track(node.command),
                                node.notifiers)
              s3 == tracker_update(s2, node.progress)
          IN  IF node.command # "Plain" THEN [s3 EXCEPT !.is_build_actor = FALSE] ELSE s3

\* As pop_committed, the create_mview_progress of the responses not passed
\* to the tracker.
pop_committed_no_update(s) ==
    LET node == Head(s.queue)
        s1 == [s EXCEPT !.queue = Tail(@)]
    IN  IF node.result # "Ok"
        THEN [s1 EXCEPT !.loop = "panicked", !.ret = "Panic"]
        ELSE
          LET s2 == [s1 EXCEPT !.notified = Notify(@, node.notifiers, "collected")]
              s3 == tracker_add(s2, node.curr_epoch, actors_to_track(node.command),
                                node.notifiers)
          IN  IF node.command # "Plain" THEN [s3 EXCEPT !.is_build_actor = FALSE] ELSE s3

\* try_commit_epoch, lines 666-685: the head has been committed; pop it,
\* notify collected, hand the notifiers to the tracker, clear is_build_actor.
pop_committed(s) ==
    LET node == Head(s.queue)
        s1 == [s EXCEPT !.queue = Tail(@)]
    IN  IF node.result # "Ok"
        THEN [s1 EXCEPT !.loop = "panicked", !.ret = "Panic"]   \* result.unwrap().unwrap()
        ELSE
          LET s2 == [s1 EXCEPT !.notified = Notify(@, node.notifiers, "collected")]
              s3 == tracker_add(s2, node.curr_epoch, actors_to_track(node.command),
                                node.notifiers)
              s4 == tracker_update(s3, node.progress)
          IN  IF node.command # "Plain"
              THEN [s4 EXCEPT !.is_build_actor = FALSE]
              ELSE s4

\* As try_commit_epoch, notifying collected as soon as commit_epoch has
\* succeeded, before post_collect has run.
RECURSIVE try_commit_epoch_notify_early(_, _)
try_commit_epoch_notify_early(s, fault) ==
    IF s.queue = <<>> \/ Head(s.queue).states # "Complete"
    THEN [s EXCEPT !.ret = "Ok"]
    ELSE
      LET node == Head(s.queue)
          commits == node.prev_epoch # INVALID_EPOCH
          commit_fails == fault = [kind |-> "commit_epoch", epoch |-> node.prev_epoch]
          post_fails == fault = [kind |-> "post_collect", epoch |-> node.prev_epoch]
          s1 == IF commits THEN [s EXCEPT !.calls = Append(@, node.prev_epoch)] ELSE s
          s2 == [s1 EXCEPT !.notified = Notify(@, node.notifiers, "collected")]
      IN  IF commits /\ node.result = "Err"
          THEN [s EXCEPT !.ret = "RpcErr"]
          ELSE IF commits /\ commit_fails
          THEN [s1 EXCEPT !.ret = "CommitErr"]
          ELSE IF post_fails
          THEN [s2 EXCEPT !.ret = "PostCollectErr"]
          ELSE IF node.result # "Ok"
          THEN [s2 EXCEPT !.queue = Tail(@), !.loop = "panicked", !.ret = "Panic"]
          ELSE try_commit_epoch_notify_early(
                   tracker_update(
                       tracker_add([s2 EXCEPT !.queue = Tail(@),
                                              !.is_build_actor =
                                                  IF node.command # "Plain" THEN FALSE ELSE @],
                                   node.curr_epoch, actors_to_track(node.command),
                                   node.notifiers),
                       node.progress),
                   fault)

\* As try_commit_epoch, calling commit_epoch for a prev_epoch of
\* INVALID_EPOCH as for any other.
RECURSIVE try_commit_epoch_any_epoch(_, _)
try_commit_epoch_any_epoch(s, fault) ==
    IF s.queue = <<>> \/ Head(s.queue).states # "Complete"
    THEN [s EXCEPT !.ret = "Ok"]
    ELSE
      LET node == Head(s.queue)
          commit_fails == fault = [kind |-> "commit_epoch", epoch |-> node.prev_epoch]
          post_fails == fault = [kind |-> "post_collect", epoch |-> node.prev_epoch]
          s1 == [s EXCEPT !.calls = Append(@, node.prev_epoch),
                          !.notified = Noted(@, node.notifiers, "commit_epoch",
                                             IF commit_fails THEN "Err" ELSE "Ok")]
          s2 == [s1 EXCEPT !.notified = Noted(@, node.notifiers, "post_collect",
                                              IF post_fails THEN "Err" ELSE "Ok")]
      IN  IF node.result = "None"
          THEN [s EXCEPT !.loop = "panicked", !.ret = "Panic"]
          ELSE IF node.result = "Err"
          THEN [s EXCEPT !.ret = "RpcErr"]
          ELSE IF commit_fails
          THEN [s1 EXCEPT !.ret = "CommitErr"]
          ELSE IF post_fails
          THEN [s2 EXCEPT !.ret = "PostCollectErr"]
          ELSE LET s3 == pop_committed(s2)
               IN  IF s3.ret = "Panic" THEN s3 ELSE try_commit_epoch_any_epoch(s3, fault)

\* As try_commit_epoch, returning after the first node it has popped.
try_commit_epoch_once(s, fault) ==
    IF s.queue = <<>> \/ Head(s.queue).states # "Complete"
    THEN [s EXCEPT !.ret = "Ok"]
    ELSE
      LET node == Head(s.queue)
          commits == node.prev_epoch # INVALID_EPOCH
          commit_fails == fault = [kind |-> "commit_epoch", epoch |-> node.prev_epoch]
          post_fails == fault = [kind |-> "post_collect", epoch |-> node.prev_epoch]
          s1 == IF commits
                THEN [s EXCEPT !.calls = Append(@, node.prev_epoch),
                               !.notified = Noted(@, node.notifiers, "commit_epoch",
                                                  IF commit_fails THEN "Err" ELSE "Ok")]
                ELSE s
          s2 == [s1 EXCEPT !.notified = Noted(@, node.notifiers, "post_collect",
                                              IF post_fails THEN "Err" ELSE "Ok")]
      IN  IF commits /\ node.result = "None"
          THEN [s EXCEPT !.loop = "panicked", !.ret = "Panic"]
          ELSE IF commits /\ node.result = "Err"
          THEN [s EXCEPT !.ret = "RpcErr"]
          ELSE IF commits /\ commit_fails
          THEN [s1 EXCEPT !.ret = "CommitErr"]
          ELSE IF post_fails
          THEN [s2 EXCEPT !.ret = "PostCollectErr"]
          ELSE pop_committed(s2)

\* GlobalBarrierManager::try_commit_epoch. s.ret is "Ok", the error it
\* returns, or "Panic".
RECURSIVE try_commit_epoch(_, _)
try_commit_epoch(s, fault) ==
    IF s.queue = <<>> \/ Head(s.queue).states # "Complete"
    THEN [s EXCEPT !.ret = "Ok"]
    ELSE
      LET node == Head(s.queue)
          commits == node.prev_epoch # INVALID_EPOCH
          commit_fails == fault = [kind |-> "commit_epoch", epoch |-> node.prev_epoch]
          post_fails == fault = [kind |-> "post_collect", epoch |-> node.prev_epoch]
          s1 == IF commits
                THEN [s EXCEPT !.calls = Append(@, node.prev_epoch),
                               !.notified = Noted(@, node.notifiers, "commit_epoch",
                                                  IF commit_fails THEN "Err" ELSE "Ok")]
                ELSE s
          s2 == [s1 EXCEPT !.notified = Noted(@, node.notifiers, "post_collect",
                                              IF post_fails THEN "Err" ELSE "Ok")]
      IN  IF commits /\ node.result = "None"
          THEN [s EXCEPT !.loop = "panicked", !.ret = "Panic"]  \* "node result is none"
          ELSE IF commits /\ node.result = "Err"
          THEN [s EXCEPT !.ret = "RpcErr"]
          ELSE IF commits /\ commit_fails
          THEN [s1 EXCEPT !.ret = "CommitErr"]
          ELSE IF post_fails
          THEN [s2 EXCEPT !.ret = "PostCollectErr"]
          ELSE LET s3 == pop_committed(s2)
               IN  IF s3.ret = "Panic" THEN s3 ELSE try_commit_epoch(s3, fault)


\* ------------------------------------------------- drain, then recover
\* As drain, every node failed with the error of its own state or result.
RECURSIVE drain_own_error(_)
drain_own_error(s) ==
    IF s.queue = <<>>
    THEN s
    ELSE
      LET node == Head(s.queue)
          s1 == [s EXCEPT !.queue = Tail(@)]
      IN  IF node.states = "InFlight"
          THEN [s1 EXCEPT !.loop = "panicked"]
          ELSE
            LET err == IF node.states = "Fail" THEN node.fail_err ELSE "RpcErr"
                s2 == [s1 EXCEPT !.notified =
                          Noted(Notify(@, node.notifiers, "failed"),
                                node.notifiers, "failed_err", err)]
            IN  drain_own_error(IF node.command # "Plain"
                                THEN [s2 EXCEPT !.is_build_actor = FALSE]
                                ELSE s2)

\* barrier_complete_and_commit, lines 574-594: pop every node, notify its
\* notifiers of the failure (a Fail node with its error, a Complete node
\* with a new InternalError), clear is_build_actor for a non-Plain command.
RECURSIVE drain(_)
drain(s) ==
    IF s.queue = <<>>
    THEN s
    ELSE
      LET node == Head(s.queue)
          s1 == [s EXCEPT !.queue = Tail(@)]
      IN  IF node.states = "InFlight"
          THEN [s1 EXCEPT !.loop = "panicked"]      \* "fail recovery with pending"
          ELSE
            LET err == IF node.states = "Fail"
                       THEN node.fail_err
                       ELSE "err from before epoch"
                s2 == [s1 EXCEPT !.notified =
                          Noted(Notify(@, node.notifiers, "failed"),
                                node.notifiers, "failed_err", err)]
            IN  drain(IF node.command # "Plain"
                      THEN [s2 EXCEPT !.is_build_actor = FALSE]
                      ELSE s2)

\* As recover, recovering whether or not recovery is enabled.
recover_always(s, new_epoch, tracked) ==
    LET rec == recovery(new_epoch, tracked)
        s1 == tracker_add([s EXCEPT !.tracker = {}], rec.new_epoch,
                          rec.actors_to_track, {})
        s2 == tracker_update(s1, rec.create_mview_progress)
    IN  [s2 EXCEPT !.epoch = rec.new_epoch, !.persisted = rec.new_epoch,
                   !.is_recovery = FALSE]

\* As recover, is_recovery left set after recovery has returned.
recover_keep_flag(s, new_epoch, tracked) ==
    IF s.enable_recovery
    THEN LET rec == recovery(new_epoch, tracked)
             s1 == tracker_add([s EXCEPT !.tracker = {}], rec.new_epoch,
                               rec.actors_to_track, {})
             s2 == tracker_update(s1, rec.create_mview_progress)
         IN  [s2 EXCEPT !.epoch = rec.new_epoch, !.persisted = rec.new_epoch]
    ELSE [s EXCEPT !.loop = "panicked"]

\* As recover, the tracker not replaced by a new one.
recover_old_tracker(s, new_epoch, tracked) ==
    IF s.enable_recovery
    THEN LET rec == recovery(new_epoch, tracked)
             s1 == tracker_add(s, rec.new_epoch, rec.actors_to_track, {})
             s2 == tracker_update(s1, rec.create_mview_progress)
         IN  [s2 EXCEPT !.epoch = rec.new_epoch, !.persisted = rec.new_epoch,
                        !.is_recovery = FALSE]
    ELSE [s EXCEPT !.loop = "panicked"]

\* barrier_complete_and_commit, lines 596-613: enter recovery mode, or panic.
recover(s, new_epoch, tracked) ==
    IF s.enable_recovery
    THEN LET rec == recovery(new_epoch, tracked)
             s1 == tracker_add([s EXCEPT !.tracker = {}], rec.new_epoch,
                               rec.actors_to_track, {})
             s2 == tracker_update(s1, rec.create_mview_progress)
         IN  [s2 EXCEPT !.epoch = rec.new_epoch, !.persisted = rec.new_epoch,
                        !.is_recovery = FALSE]
    ELSE [s EXCEPT !.loop = "panicked"]             \* "failed to execute barrier"

\* As drain_and_recover, recovery called with the curr_epoch of the Fail head.
drain_and_recover_head_epoch(s, tracked) ==
    IF /\ s.queue # <<>>
       /\ Head(s.queue).states = "Fail"
       /\ InFlightCount(s.queue) = 0
    THEN
      LET new_epoch == Head(s.queue).curr_epoch
      IN  IF Head(s.queue).result # "Err"
          THEN [s EXCEPT !.loop = "panicked"]
          ELSE LET err_msg == "RpcErr"
                   s1 == drain(s)
                   s2 == recover(s1, new_epoch, tracked)
               IN  IF s1.loop = "panicked" THEN s1
                   ELSE IF s2.loop = "panicked" THEN [s2 EXCEPT !.panic_err = err_msg]
                   ELSE s2
    ELSE s

\* As drain_and_recover, not waiting for the InFlight nodes.
drain_and_recover_at_once(s, tracked) ==
    IF /\ s.queue # <<>>
       /\ Head(s.queue).states = "Fail"
    THEN
      LET new_epoch == s.queue[Len(s.queue)].curr_epoch
      IN  IF Head(s.queue).result # "Err"
          THEN [s EXCEPT !.loop = "panicked"]
          ELSE LET err_msg == "RpcErr"
                   s1 == drain(s)
                   s2 == recover(s1, new_epoch, tracked)
               IN  IF s1.loop = "panicked" THEN s1
                   ELSE IF s2.loop = "panicked" THEN [s2 EXCEPT !.panic_err = err_msg]
                   ELSE s2
    ELSE s

\* barrier_complete_and_commit, lines 544-614. err_msg (lines 565-573) is
\* the error of the result of the head: the error its inject or collect
\* returned.
drain_and_recover(s, tracked) ==
    IF /\ s.queue # <<>>
       /\ Head(s.queue).states = "Fail"
       /\ InFlightCount(s.queue) = 0
    THEN
      LET new_epoch == s.queue[Len(s.queue)].curr_epoch
      IN  IF Head(s.queue).result # "Err"
          THEN [s EXCEPT !.loop = "panicked"]       \* err_msg: .err().unwrap() on an Ok result
          ELSE LET err_msg == "RpcErr"
                   s1 == drain(s)
                   s2 == recover(s1, new_epoch, tracked)
               IN  IF s1.loop = "panicked" THEN s1
                   ELSE IF s2.loop = "panicked" THEN [s2 EXCEPT !.panic_err = err_msg]
                   ELSE s2
    ELSE s

\* barrier_complete_and_commit, lines 519-528: the node of the completion
\* becomes Complete and keeps the result, whatever the result is.
complete_node(s, msg) ==
    LET found == {i \in 1..Len(s.queue) : s.queue[i].prev_epoch = msg.prev_epoch}
    IN  IF found = {}
        THEN s
        ELSE
          LET i == CHOOSE j \in found : \A k \in found : j <= k
          IN  IF s.queue[i].states # "InFlight"
              THEN [s EXCEPT !.loop = "panicked"]   \* assert!(matches!(node.states, InFlight))
              ELSE [s EXCEPT !.queue[i].states = "Complete",
                             !.queue[i].result = msg.result,
                             !.queue[i].progress = msg.progress,
                             !.notified = Noted(@, s.queue[i].notifiers, "collect",
                                                msg.result)]

\* As commit_from_head, committing the Complete nodes in the order their
\* completions arrived instead of waiting for the head.
commit_from_head_arrival(s, fault) ==
    LET IsComplete(node) == node.states = "Complete"
        NotComplete(node) == node.states # "Complete"
        s0 == [s EXCEPT !.queue = SelectSeq(@, IsComplete) \o SelectSeq(@, NotComplete)]
    IN  IF s0.queue = <<>>
        THEN [s0 EXCEPT !.loop = "panicked"]
        ELSE IF Head(s0.queue).states = "Complete"
        THEN LET s1 == try_commit_epoch(s0, fault)
             IN  IF s1.ret \in {"Ok", "Panic"}
                 THEN s1
                 ELSE [s1 EXCEPT !.is_recovery = TRUE,
                                 !.queue[1].states = "Fail",
                                 !.queue[1].fail_err = s1.ret]
        ELSE s0

\* As commit_from_head, leaving is_recovery as it is when the commit fails.
commit_from_head_no_flag(s, fault) ==
    IF s.queue = <<>>
    THEN [s EXCEPT !.loop = "panicked"]
    ELSE IF Head(s.queue).states = "Complete"
    THEN LET s1 == try_commit_epoch(s, fault)
         IN  IF s1.ret \in {"Ok", "Panic"}
             THEN s1
             ELSE [s1 EXCEPT !.queue[1].states = "Fail",
                             !.queue[1].fail_err = s1.ret]
    ELSE s

\* barrier_complete_and_commit, lines 529-543: commit from the head; on an
\* error the head becomes Fail and is_recovery is set.
commit_from_head(s, fault) ==
    IF s.queue = <<>>
    THEN [s EXCEPT !.loop = "panicked"]             \* front().unwrap()
    ELSE IF Head(s.queue).states = "Complete"
    THEN LET s1 == try_commit_epoch(s, fault)
         IN  IF s1.ret \in {"Ok", "Panic"}
             THEN s1
             ELSE [s1 EXCEPT !.is_recovery = TRUE,
                             !.queue[1].states = "Fail",
                             !.queue[1].fail_err = s1.ret]
    ELSE s

\* GlobalBarrierManager::barrier_complete_and_commit
barrier_complete_and_commit(s, msg, fault, tracked) ==
    LET s1 == complete_node(s, msg)
        s2 == IF s1.loop = "panicked" THEN s1 ELSE commit_from_head(s1, fault)
    IN  IF s2.loop = "panicked" THEN s2 ELSE drain_and_recover(s2, tracked)

\* ---------------------------------------------------------- RowNumberState
\* RowNumberState::new; panicked: one of the expect()s of slide_inner failed.
RowNumberState ==
    [first_key |-> None, buffer |-> <<>>, curr_row_number |-> 1, panicked |-> FALSE]

\* WindowState::append
append(st, key) ==
    [st EXCEPT !.first_key = IF @ = None THEN key ELSE @,
               !.buffer = Append(@, key)]

\* WindowState::curr_window
curr_window(st) ==
    [key |-> IF st.buffer = <<>> THEN None ELSE Head(st.buffer),
     is_ready |-> st.buffer # <<>>]

\* As slide_inner, taking the newest key of the buffer (pop_back).
slide_inner_pop_back(st) ==
    LET s1 == [st EXCEPT !.curr_row_number = @ + 1]
    IN  IF s1.buffer = <<>> \/ s1.first_key = None
        THEN [state |-> [s1 EXCEPT !.panicked = TRUE], hint |-> None]
        ELSE [state |-> [s1 EXCEPT !.buffer = SubSeq(@, 1, Len(@) - 1)],
              hint |-> s1.first_key]

\* RowNumberState::slide_inner: the state after it and the key of the
\* CannotEvict hint it returns; both expect()s panic.
slide_inner(st) ==
    LET s1 == [st EXCEPT !.curr_row_number = @ + 1]
    IN  IF s1.buffer = <<>>
        THEN [state |-> [s1 EXCEPT !.panicked = TRUE], hint |-> None]
        ELSE LET s2 == [s1 EXCEPT !.buffer = Tail(@)]
             IN  IF s2.first_key = None
                 THEN [state |-> [s2 EXCEPT !.panicked = TRUE], hint |-> None]
                 ELSE [state |-> s2, hint |-> s2.first_key]

\* WindowState::slide
slide(st) ==
    LET output == IF curr_window(st).is_ready THEN st.curr_row_number ELSE None
        inner == slide_inner(st)
    IN  [state |-> inner.state, output |-> output, hint |-> inner.hint]

\* WindowState::slide_no_output
slide_no_output(st) ==
    LET inner == slide_inner(st)
    IN  [state |-> inner.state, output |-> None, hint |-> inner.hint]

\* ------------------------------------------------------------- the state
\* ------------------------------------------- inject_barrier, per worker
\* The worker nodes of info.node_map.
Workers == 1..MaxWorkers

\* BarrierActorInfo as inject_barrier reads it: for every node of node_map,
\* its actor_ids_to_collect.
Infos == [Workers -> SUBSET Actors]

\* As collect_futures, without the filter on actor_ids_to_collect.
collect_futures_every_node(info) == DOMAIN info

\* inject_barrier, lines 424-466: the workers an InjectBarrierRequest is made for.
inject_futures(info) == {node_id \in DOMAIN info : info[node_id] # {}}

\* inject_barrier, lines 471-501: the workers a BarrierCompleteRequest is made for.
collect_futures(info) == {node_id \in DOMAIN info : info[node_id] # {}}

\* inject_barrier, lines 419-468 and 506: what it returns, the inject RPCs it
\* made and whether it spawned the collect task, when to_mutation (or the
\* fail point) returns Ok or not and the inject RPCs to inject_errs fail.
inject_barrier(info, mutation_ok, inject_errs) ==
    IF ~mutation_ok
    THEN [ret |-> "Err", inject_rpcs |-> {}, spawned |-> FALSE]
    ELSE LET futures == inject_futures(info)
         IN  IF futures \cap inject_errs # {}
             THEN [ret |-> "Err", inject_rpcs |-> futures, spawned |-> FALSE]
             ELSE [ret |-> "Ok", inject_rpcs |-> futures, spawned |-> TRUE]

\* No call of inject_and_send_err yet.
NoInjectCall ==
    [pc |-> "None", prev_epoch |-> INVALID_EPOCH, info |-> [w \in Workers |-> {}],
     mutation_ok |-> TRUE, inject_errs |-> {}, inject_rpcs |-> {}, collect_rpcs |-> {},
     sent |-> <<>>]

\* run(), lines 278-298: in_flight_prev_epoch when the loop starts on a fresh
\* meta store: INVALID_EPOCH, or what the recovery at start returns.
FirstEpoch ==
    IF enable_recovery
    THEN recovery(next(INVALID_EPOCH), {}).new_epoch
    ELSE INVALID_EPOCH

Init ==
    /\ enable_recovery \in BOOLEAN
    /\ in_flight_prev_epoch = FirstEpoch
    /\ persisted_prev_epoch = FirstEpoch
    /\ panic_err = "None"
    /\ buffer = <<>>
    /\ is_recovery = FALSE
    /\ is_build_actor = FALSE
    /\ command_ctx_queue = <<>>
    /\ tracker = {}
    /\ tasks = {}
    /\ barrier_complete_rx = <<>>
    /\ loop = "select"
    /\ notified = [n \in AllIds |-> NoNotifier]
    /\ commit_epoch_calls = <<>>
    /\ callers = [n \in AllIds |-> NoCaller]
    /\ shutdown_rx = "Pending"
    /\ inject_call = NoInjectCall
    /\ wait_one_fut = "None"
    /\ row_number_state =
           [state |-> RowNumberState, appended |-> <<>>, slides |-> 0,
            slides_no_output |-> 0, bad_use |-> FALSE,
            returned |-> [output |-> None, hint |-> None], removed |-> None]

\* The state the handlers of the main loop work on.
LoopState ==
    [queue |-> command_ctx_queue, tracker |-> tracker, notified |-> notified,
     calls |-> commit_epoch_calls, is_recovery |-> is_recovery,
     is_build_actor |-> is_build_actor, epoch |-> in_flight_prev_epoch, loop |-> loop,
     enable_recovery |-> enable_recovery, persisted |-> persisted_prev_epoch,
     panic_err |-> panic_err, ret |-> "Ok"]

SetLoopState(s) ==
    /\ command_ctx_queue' = s.queue
    /\ tracker' = s.tracker
    /\ notified' = s.notified
    /\ commit_epoch_calls' = s.calls
    /\ is_recovery' = s.is_recovery
    /\ is_build_actor' = s.is_build_actor
    /\ in_flight_prev_epoch' = s.epoch
    /\ persisted_prev_epoch' = s.persisted
    /\ panic_err' = s.panic_err
    /\ loop' = s.loop

\* ------------------------------------------------------ submission API
\* GlobalBarrierManager::do_schedule called by `api`: the command is pushed
\* with one new Notifier. For run_command the caller goes on to await the
\* channels of the Notifier. (Once the loop has panicked nothing reads the
\* buffer any more.)
do_schedule_by(api) ==
    /\ loop = "select"
    /\ FreshIds # {}
    /\ \E command \in Commands :
         LET n == CHOOSE m \in FreshIds : \A k \in FreshIds : m <= k
         IN  /\ buffer' = push(buffer, [command |-> command, notifiers |-> {n}])
             /\ notified' = [notified EXCEPT ![n] = NewNotifier]
             /\ callers' = IF api = "run_command"
                           THEN [callers EXCEPT ![n] = Caller(api, command)]
                           ELSE callers
    /\ wait_one_fut' = notify_changed(buffer', wait_one_fut)
    /\ UNCHANGED <<row_number_state, inject_call,
                   panic_err, persisted_prev_epoch, enable_recovery,
                   shutdown_rx, in_flight_prev_epoch, is_recovery, is_build_actor,
                   command_ctx_queue, tracker, tasks, barrier_complete_rx, loop,
                   commit_epoch_calls>>

\* GlobalBarrierManager::do_schedule, as schedule_command, issue_command and
\* run_command call it, the caller left out.
do_schedule == do_schedule_by("do_schedule")

\* GlobalBarrierManager::wait_for_next_barrier_to_collect, its Notifier
\* taken from ids: the Notifier is attached to the first entry of the
\* buffer, or to a new checkpoint entry, which sends the wake-up.
wait_for_next_barrier_to_collect_of(ids) ==
    /\ loop = "select"
    /\ \E n \in ids :
          /\ notified[n].curr_epoch = -1
          /\ \A m \in ids : notified[m].curr_epoch = -1 => n <= m
          /\ buffer' = attach_notifiers(buffer, {n})
          /\ notified' = [notified EXCEPT ![n] = NewNotifier]
    /\ wait_one_fut' = IF buffer = <<>> THEN notify_changed(buffer', wait_one_fut)
                       ELSE wait_one_fut
    /\ UNCHANGED <<row_number_state, inject_call,
                   panic_err, persisted_prev_epoch, enable_recovery,
                   shutdown_rx, in_flight_prev_epoch, is_recovery, is_build_actor,
                   command_ctx_queue, tracker, tasks, barrier_complete_rx, loop,
                   commit_epoch_calls, callers>>

\* GlobalBarrierManager::wait_for_next_barrier_to_collect
wait_for_next_barrier_to_collect == wait_for_next_barrier_to_collect_of(NotifierIds)

\* ---------------------------------------------------------- the main loop
\* The EpochNode pushed at lines 380-386.
EpochNode(prev_epoch, curr_epoch, command, notifiers) ==
    [prev_epoch |-> prev_epoch, curr_epoch |-> curr_epoch, command |-> command,
     states |-> "InFlight", fail_err |-> "None", result |-> "None", progress |-> {},
     notifiers |-> notifiers]

\* History: the notifiers of ns now belong to the barrier (prev_epoch,
\* curr_epoch), whose inject returned `inject`.
Bound(nf, ns, prev_epoch, curr_epoch, inject) ==
    Noted(Noted(Noted(nf, ns, "prev_epoch", prev_epoch), ns, "curr_epoch", curr_epoch),
          ns, "inject", inject)

\* GlobalBarrierManager::run, lines 336-354: pop an entry; the resolved
\* actor info has nothing to do.
run_nothing_to_do ==
    LET popped == pop_or_default(buffer)
        command == popped.scheduled.command
        notifiers == popped.scheduled.notifiers
    IN  /\ buffer' = popped.buffer
        /\ is_build_actor' = IF command # "Plain" THEN TRUE ELSE is_build_actor
        /\ notified' = Notify(Notify(Noted(notified, notifiers, "curr_epoch", -2), notifiers, "to_send"),
                              notifiers, "collected")
        /\ wait_one_fut' = "None"          \* the futures of the select are dropped
        /\ UNCHANGED <<row_number_state, inject_call,
                       panic_err, persisted_prev_epoch, enable_recovery,
                       shutdown_rx, in_flight_prev_epoch, is_recovery, command_ctx_queue,
                       tracker, tasks, barrier_complete_rx, loop, commit_epoch_calls,
                       callers>>

\* run_inject with one of its steps changed: keep_epoch leaves
\* state.in_flight_prev_epoch as it was; keep_flag leaves is_build_actor as it
\* was; send_after notifies to_send only after a successful inject;
\* persist_late writes the meta store only after inject_and_send_err.
run_inject_changed(inject_ok, keep_epoch, keep_flag, send_after, persist_late) ==
    LET popped == pop_or_default(buffer)
        command == popped.scheduled.command
        notifiers == popped.scheduled.notifiers
        prev_epoch == in_flight_prev_epoch
        new_epoch == next(prev_epoch)
        bound == Bound(notified, notifiers, prev_epoch, new_epoch,
                       IF inject_ok THEN "Ok" ELSE "Err")
    IN  /\ new_epoch <= FirstEpoch + MaxEpoch
        /\ buffer' = popped.buffer
        /\ is_build_actor' = IF command # "Plain" /\ ~keep_flag THEN TRUE ELSE is_build_actor
        /\ in_flight_prev_epoch' = IF keep_epoch THEN prev_epoch ELSE new_epoch
        /\ persisted_prev_epoch' = in_flight_prev_epoch'
        /\ notified' = IF send_after /\ ~inject_ok
                       THEN bound
                       ELSE Notify(bound, notifiers, "to_send")
        /\ command_ctx_queue' =
               Append(command_ctx_queue, EpochNode(prev_epoch, new_epoch, command, notifiers))
        /\ tasks' = tasks \cup
               {[prev_epoch |-> prev_epoch,
                 kind |-> IF inject_ok THEN "collect" ELSE "inject_err",
                 persisted |-> IF persist_late THEN persisted_prev_epoch
                               ELSE persisted_prev_epoch']}
        /\ wait_one_fut' = "None"          \* the futures of the select are dropped
        /\ UNCHANGED <<row_number_state, inject_call,
                       panic_err, enable_recovery, shutdown_rx,
                       is_recovery, tracker, barrier_complete_rx, loop, commit_epoch_calls,
                       callers>>

run_inject_stale_epoch(inject_ok) ==
    run_inject_changed(inject_ok, TRUE, FALSE, FALSE, FALSE)

run_inject_no_build_flag(inject_ok) ==
    run_inject_changed(inject_ok, FALSE, TRUE, FALSE, FALSE)

run_inject_send_on_success(inject_ok) ==
    run_inject_changed(inject_ok, FALSE, FALSE, TRUE, FALSE)

run_inject_persist_late(inject_ok) ==
    run_inject_changed(inject_ok, FALSE, FALSE, FALSE, TRUE)

\* GlobalBarrierManager::run, lines 336-389: pop an entry, allocate the
\* next epoch, write it to the meta store, notify to_send, push the node and
\* inject the barrier; inject_and_send_err and inject_barrier leave one task
\* behind. The task keeps, as history, the record of the meta store as it
\* was when inject_and_send_err was called (line 388).
run_inject(inject_ok) ==
    LET popped == pop_or_default(buffer)
        command == popped.scheduled.command
        notifiers == popped.scheduled.notifiers
        prev_epoch == in_flight_prev_epoch
        new_epoch == next(prev_epoch)
    IN  /\ new_epoch <= FirstEpoch + MaxEpoch
        /\ buffer' = popped.buffer
        /\ is_build_actor' = IF command # "Plain" THEN TRUE ELSE is_build_actor
        /\ in_flight_prev_epoch' = new_epoch
        /\ persisted_prev_epoch' = new_epoch       \* update_inflight_prev_epoch, lines 364-367
        /\ notified' = Notify(Bound(notified, notifiers, prev_epoch, new_epoch,
                                    IF inject_ok THEN "Ok" ELSE "Err"),
                              notifiers, "to_send")
        /\ command_ctx_queue' =
               Append(command_ctx_queue, EpochNode(prev_epoch, new_epoch, command, notifiers))
        /\ tasks' = tasks \cup
               {[prev_epoch |-> prev_epoch,
                 kind |-> IF inject_ok THEN "collect" ELSE "inject_err",
                 persisted |-> persisted_prev_epoch']}
        /\ wait_one_fut' = "None"          \* the futures of the select are dropped
        /\ UNCHANGED <<row_number_state, inject_call,
                       panic_err, enable_recovery, shutdown_rx,
                       is_recovery, tracker, barrier_complete_rx, loop, commit_epoch_calls,
                       callers>>

\* The body of the loop after a scheduling event of the select.
run_body ==
    \/ run_nothing_to_do
    \/ \E inject_ok \in BOOLEAN : run_inject(inject_ok)

\* As SelectSchedules, the shutdown branch not polled before the others.
SelectSchedules_shutdown_last ==
    /\ loop = "select"
    /\ barrier_complete_rx = <<>>
    /\ can_inject_barrier(is_recovery, is_build_actor, command_ctx_queue,
                          in_flight_barrier_nums)

\* The select of run() may take a scheduling branch: the loop is alive,
\* neither the shutdown nor a completion is ready (the select is biased) and
\* the guard of the branch holds.
SelectSchedules ==
    /\ loop = "select"
    /\ shutdown_rx = "Pending"
    /\ barrier_complete_rx = <<>>
    /\ can_inject_barrier(is_recovery, is_build_actor, command_ctx_queue,
                          in_flight_barrier_nums)

\* run(), lines 326-329: scheduled_barriers.wait_one() finds an entry when
\* it is first polled (lines 91-94) and is ready.
run_wait_one ==
    /\ SelectSchedules
    /\ wait_one_fut = "None"
    /\ buffer # <<>>
    /\ run_body

\* run(), lines 330-333: min_interval.tick() is ready.
run_tick ==
    /\ SelectSchedules
    /\ run_body

\* Actors some tracked command still waits for: in the tracker, or of a
\* barrier of the pipeline.
TrackedActors ==
    UNION {t.actors : t \in tracker} \cup
    UNION {actors_to_track(command_ctx_queue[i].command) : i \in 1..Len(command_ctx_queue)}

\* run(), lines 312-325: a completion is received and applied. What the
\* collect task got from try_join_all is drawn here, where it is first read:
\* an error, or Ok with responses whose create_mview_progress reports some
\* tracked actors done. results: what the collect may return; faults: what
\* commit_epoch and post_collect may do.
run_barrier_complete_with(results, faults) ==
    /\ loop = "select"
    /\ shutdown_rx = "Pending"
    /\ barrier_complete_rx # <<>>
    /\ LET sent == Head(barrier_complete_rx)
       IN  \E fault \in faults, tracked \in RecoveredActors,
              result \in results, progress \in SUBSET TrackedActors :
              /\ sent.kind = "inject_err" => result = "Err"
              /\ result = "Err" => progress = {}
              /\ SetLoopState(barrier_complete_and_commit(LoopState,
                     [prev_epoch |-> sent.prev_epoch, result |-> result,
                      progress |-> progress], fault, tracked))
    /\ barrier_complete_rx' = Tail(barrier_complete_rx)
    /\ wait_one_fut' = "None"          \* the futures of the select are dropped
    /\ UNCHANGED <<row_number_state, inject_call,
                   enable_recovery, shutdown_rx, buffer, tasks, callers>>

run_barrier_complete ==
    run_barrier_complete_with({"Ok", "Err"}, Faults(command_ctx_queue))

\* ------------------------------------------------------ detached tasks
\* As task_send, the task going on to send its completion again.
task_send_again ==
    \E t \in tasks :
        /\ loop = "select"
        /\ barrier_complete_rx' = Append(barrier_complete_rx, t)
        /\ UNCHANGED <<row_number_state, inject_call, wait_one_fut,
                       panic_err, persisted_prev_epoch, enable_recovery,
                       shutdown_rx, buffer, in_flight_prev_epoch, is_recovery,
                       is_build_actor, command_ctx_queue, tracker, loop, notified,
                       commit_epoch_calls, callers, tasks>>

\* inject_and_send_err, lines 404-408, and inject_barrier, lines 469-505:
\* a spawned task sends its completion on barrier_complete_tx. (Once the
\* loop has panicked the receiver is gone and the send fails.)
task_send ==
    \E t \in tasks :
        /\ loop = "select"
        /\ tasks' = tasks \ {t}
        /\ barrier_complete_rx' = Append(barrier_complete_rx, t)
        /\ UNCHANGED <<row_number_state, inject_call, wait_one_fut,
                       panic_err, persisted_prev_epoch, enable_recovery,
                       shutdown_rx, buffer, in_flight_prev_epoch, is_recovery,
                       is_build_actor, command_ctx_queue, tracker, loop, notified,
                       commit_epoch_calls, callers>>

Next ==
    \/ do_schedule
    \/ wait_for_next_barrier_to_collect
    \/ run_wait_one
    \/ run_tick
    \/ run_barrier_complete
    \/ task_send

Spec == Init /\ [][Next]_vars

\* ------------------------------------------- runs without faults
\* GlobalBarrierManager::schedule_command(command), for a command of
\* `commands`: do_schedule with a Notifier that has no slot.
schedule_command_of(commands) ==
    /\ loop = "select"
    /\ \E n \in ScheduledIds, command \in commands :
         /\ notified[n].curr_epoch = -1
         /\ \A m \in ScheduledIds : notified[m].curr_epoch = -1 => n <= m
         /\ buffer' = push(buffer, [command |-> command, notifiers |-> {n}])
         /\ notified' = [notified EXCEPT ![n] = NewNotifier]
    /\ wait_one_fut' = notify_changed(buffer', wait_one_fut)
    /\ UNCHANGED <<row_number_state, inject_call,
                   panic_err, persisted_prev_epoch, enable_recovery,
                   shutdown_rx, in_flight_prev_epoch, is_recovery, is_build_actor,
                   command_ctx_queue, tracker, tasks, barrier_complete_rx, loop,
                   commit_epoch_calls, callers>>

\* GlobalBarrierManager::schedule_command(Plain)
schedule_command == schedule_command_of({"Plain"})

\* The scheduling branches and the completion branch of run() when the
\* fleet is not empty, every inject and collect returns Ok and neither
\* commit_epoch nor post_collect fails.
steady_wait_one ==
    /\ SelectSchedules
    /\ wait_one_fut = "None"
    /\ buffer # <<>>
    /\ run_inject(TRUE)

steady_tick ==
    /\ SelectSchedules
    /\ run_inject(TRUE)

steady_barrier_complete ==
    run_barrier_complete_with({"Ok"}, {[kind |-> "none", epoch |-> -1]})

NextNoFault ==
    \/ schedule_command
    \/ steady_wait_one
    \/ steady_tick
    \/ steady_barrier_complete
    \/ task_send

SpecNoFault == Init /\ [][NextNoFault]_vars

\* ------------------------------------------------------------ shutdown
\* GlobalBarrierManager::start, line 273: the shutdown sender is handed to
\* the caller, who sends on it (or drops it); either makes shutdown_rx ready.
shutdown_tx_send ==
    /\ shutdown_rx = "Pending"
    /\ shutdown_rx' = "Ready"
    /\ UNCHANGED <<row_number_state, inject_call, wait_one_fut,
                   panic_err, persisted_prev_epoch, enable_recovery,
                   buffer, in_flight_prev_epoch, is_recovery, is_build_actor,
                   command_ctx_queue, tracker, tasks, barrier_complete_rx, loop, notified,
                   commit_epoch_calls, callers>>

\* run(), lines 308-311: the shutdown branch of the select, polled first;
\* run() returns and what it owned is dropped as it is.
run_shutdown ==
    /\ loop = "select"
    /\ shutdown_rx = "Ready"
    /\ loop' = "returned"
    /\ wait_one_fut' = "None"          \* the futures of the select are dropped
    /\ UNCHANGED <<row_number_state, inject_call,
                   panic_err, persisted_prev_epoch, enable_recovery,
                   shutdown_rx, buffer, in_flight_prev_epoch, is_recovery, is_build_actor,
                   command_ctx_queue, tracker, tasks, barrier_complete_rx, notified,
                   commit_epoch_calls, callers>>

NextShutdown ==
    \/ do_schedule
    \/ run_wait_one
    \/ run_tick
    \/ run_barrier_complete
    \/ task_send
    \/ shutdown_tx_send
    \/ run_shutdown

SpecShutdown == Init /\ [][NextShutdown]_vars

\* ------------------------------------------------ run_command callers
\* Notifier n is still owned by something that can notify it: an entry of
\* the buffer or, while run() is alive, a node of the pipeline or the
\* tracker. The nothing_to_do branch (lines 350-353), the drain (lines
\* 588-590), the reset of the tracker (line 600) and a panic of run() drop it.
Held(n) ==
    \/ \E i \in 1..Len(buffer) : n \in buffer[i].notifiers
    \/ /\ loop = "select"
       /\ \/ \E i \in 1..Len(command_ctx_queue) : n \in command_ctx_queue[i].notifiers
          \/ \E t \in tracker : n \in t.notifiers

\* What awaiting the `collected` channel of Notifier n gives: Ok from
\* notify_collected, Err from notify_collection_failed, Closed when the
\* Notifier was dropped before either.
collect_rx(n) ==
    IF notified[n].collected >= 1 THEN "Ok"
    ELSE IF notified[n].failed >= 1 THEN "Err"
    ELSE IF Held(n) THEN "Pending"
    ELSE "Closed"

\* What awaiting the `finished` channel of Notifier n gives.
finish_rx(n) ==
    IF notified[n].finished >= 1 THEN "Fired"
    ELSE IF Held(n) THEN "Pending"
    ELSE "Closed"

\* run_command, lines 732-746: the channels are made and the command is
\* scheduled with a Notifier holding collected and finished.
run_command == do_schedule_by("run_command")

\* run_command, lines 748-757: collect_rx.await.unwrap()? and, for a
\* CreateMaterializedView, pin_snapshot(..)?.
run_command_collect_rx ==
    \E n \in NotifierIds, pin_ok \in BOOLEAN :
        LET c == callers[n]
        IN  /\ c.api = "run_command"
            /\ c.pc = "collect_rx"
            /\ collect_rx(n) # "Pending"
            /\ callers' = [callers EXCEPT ![n] =
                   IF collect_rx(n) = "Closed" THEN [c EXCEPT !.pc = "panicked"]
                   ELSE IF collect_rx(n) = "Err" THEN [c EXCEPT !.pc = "Err"]
                   ELSE IF ~c.is_create_mv THEN [c EXCEPT !.pc = "finish_rx"]
                   ELSE IF pin_ok THEN [c EXCEPT !.pc = "finish_rx", !.pins = @ + 1]
                   ELSE [c EXCEPT !.pc = "Err"]]
            /\ UNCHANGED <<row_number_state, inject_call, wait_one_fut,
                           panic_err, persisted_prev_epoch,
                           enable_recovery, shutdown_rx, buffer, in_flight_prev_epoch,
                           is_recovery, is_build_actor, command_ctx_queue, tracker, tasks,
                           barrier_complete_rx, loop, notified, commit_epoch_calls>>

\* run_command, lines 758-766: finish_rx.await.unwrap() and, for a
\* CreateMaterializedView, unpin_snapshot(..)?.
run_command_finish_rx ==
    \E n \in NotifierIds, unpin_ok \in BOOLEAN :
        LET c == callers[n]
        IN  /\ c.api = "run_command"
            /\ c.pc = "finish_rx"
            /\ finish_rx(n) # "Pending"
            /\ callers' = [callers EXCEPT ![n] =
                   IF finish_rx(n) = "Closed" THEN [c EXCEPT !.pc = "panicked"]
                   ELSE IF ~c.is_create_mv THEN [c EXCEPT !.pc = "Ok"]
                   ELSE [c EXCEPT !.pc = IF unpin_ok THEN "Ok" ELSE "Err",
                                  !.unpins = @ + 1]]
            /\ UNCHANGED <<row_number_state, inject_call, wait_one_fut,
                           panic_err, persisted_prev_epoch,
                           enable_recovery, shutdown_rx, buffer, in_flight_prev_epoch,
                           is_recovery, is_build_actor, command_ctx_queue, tracker, tasks,
                           barrier_complete_rx, loop, notified, commit_epoch_calls>>

NextApi ==
    \/ run_command
    \/ run_command_collect_rx
    \/ run_command_finish_rx
    \/ run_wait_one
    \/ run_tick
    \/ run_barrier_complete
    \/ task_send

SpecApi == Init /\ [][NextApi]_vars


\* ------------------------------------------- calls on a RowNumberState
\* The variables of the barrier manager.
barrier_vars ==
    <<enable_recovery, buffer, in_flight_prev_epoch, is_recovery, is_build_actor,
      command_ctx_queue, tracker, tasks, barrier_complete_rx, loop,
      notified, commit_epoch_calls, callers, shutdown_rx, persisted_prev_epoch, panic_err,
      inject_call, wait_one_fut>>

\* A call of state.append(key, args).
call_append ==
    /\ ~row_number_state.state.panicked
    /\ Len(row_number_state.appended) < MaxRows
    /\ \E key \in StateKeys :
           row_number_state' =
               [row_number_state EXCEPT !.state = append(@, key),
                                        !.appended = Append(@, key)]
    /\ UNCHANGED barrier_vars

\* History of a call that slides: whether the buffer was empty at the call,
\* the key that was at its front, and what the call returned.
Slid(h, ret) ==
    [h EXCEPT !.state = ret.state,
              !.bad_use = @ \/ h.state.buffer = <<>>,
              !.removed = curr_window(h.state).key,
              !.returned = [output |-> ret.output, hint |-> ret.hint]]

\* A call of state.slide().
call_slide ==
    /\ ~row_number_state.state.panicked
    /\ row_number_state' =
           [Slid(row_number_state, slide(row_number_state.state)) EXCEPT !.slides = @ + 1]
    /\ UNCHANGED barrier_vars

\* A call of state.slide_no_output().
call_slide_no_output ==
    /\ ~row_number_state.state.panicked
    /\ row_number_state' =
           [Slid(row_number_state, slide_no_output(row_number_state.state))
               EXCEPT !.slides_no_output = @ + 1]
    /\ UNCHANGED barrier_vars

NextRowNumber ==
    \/ call_append
    \/ call_slide
    \/ call_slide_no_output

SpecRowNumber == Init /\ [][NextRowNumber]_vars

\* ------------------------------------- one inject_and_send_err, per worker
\* The variables other than inject_call.
inject_frame ==
    <<enable_recovery, buffer, in_flight_prev_epoch, is_recovery, is_build_actor,
      command_ctx_queue, tracker, tasks, barrier_complete_rx, loop,
      notified, commit_epoch_calls, callers, shutdown_rx, persisted_prev_epoch, panic_err,
      row_number_state, wait_one_fut>>

\* inject_and_send_err, lines 394-410, for the barrier of prev_epoch on a
\* fleet `info`: inject_barrier runs; when it returns Err a task is spawned
\* to send the error, otherwise inject_barrier has spawned the collect task.
inject_and_send_err ==
    /\ inject_call.pc = "None"
    /\ \E prev_epoch \in 0..MaxEpoch, info \in Infos, mutation_ok \in BOOLEAN,
          inject_errs \in SUBSET Workers :
          LET r == inject_barrier(info, mutation_ok, inject_errs)
          IN  /\ inject_errs \subseteq r.inject_rpcs
              /\ inject_call' =
                     [inject_call EXCEPT !.pc = IF r.ret = "Err" THEN "err_task"
                                                ELSE "collect_task",
                                         !.prev_epoch = prev_epoch,
                                         !.info = info,
                                         !.mutation_ok = mutation_ok,
                                         !.inject_errs = inject_errs,
                                         !.inject_rpcs = r.inject_rpcs]
    /\ UNCHANGED inject_frame

\* The task spawned at lines 404-408 sends the error of the inject.
inject_err_task ==
    /\ inject_call.pc = "err_task"
    /\ inject_call' =
           [inject_call EXCEPT !.pc = "done",
                               !.sent = Append(@, [prev_epoch |-> inject_call.prev_epoch,
                                                   result |-> "Err"])]
    /\ UNCHANGED inject_frame

\* The task spawned at lines 469-505: the collect RPCs are made and awaited
\* together, those to collect_errs fail, and the result is sent.
collect_task ==
    /\ inject_call.pc = "collect_task"
    /\ \E collect_errs \in SUBSET Workers :
          LET futures == collect_futures(inject_call.info)
          IN  /\ collect_errs \subseteq futures
              /\ inject_call' =
                     [inject_call EXCEPT
                         !.pc = "done",
                         !.collect_rpcs = futures,
                         !.sent = Append(@, [prev_epoch |-> inject_call.prev_epoch,
                                             result |-> IF collect_errs # {} THEN "Err"
                                                        ELSE "Ok"])]
    /\ UNCHANGED inject_frame

NextInject ==
    \/ inject_and_send_err
    \/ inject_err_task
    \/ collect_task

SpecInject == Init /\ [][NextInject]_vars

\* ------------------------------------------- ScheduledBarriers at work
\* The callers of ScheduledBarriers and the scheduling side of run(), on a
\* fleet that is not empty and accepts every barrier, up to the first
\* answer to a collect.
\* schedule_command with any command.
schedule_commands == schedule_command_of(Commands)

\* wait_for_next_barrier_to_collect, called next to schedule_command calls.
attach_next_barrier == wait_for_next_barrier_to_collect_of(AttachIds)

\* run(), line 327: the wait_one branch of the select is polled first and
\* finds the buffer empty: it subscribes and awaits the wake-up.
select_wait_one ==
    /\ SelectSchedules
    /\ wait_one_fut = "None"
    /\ wait_one(buffer) = "Awaiting"
    /\ wait_one_fut' = wait_one(buffer)
    /\ UNCHANGED <<row_number_state, inject_call,
                   panic_err, persisted_prev_epoch, enable_recovery,
                   shutdown_rx, buffer, in_flight_prev_epoch, is_recovery,
                   is_build_actor, command_ctx_queue, tracker, tasks,
                   barrier_complete_rx, loop, notified, commit_epoch_calls, callers>>

\* run(), lines 326-329: rx.changed() of line 98 resolves, wait_one returns
\* and the body of the loop runs.
steady_wait_one_changed ==
    /\ SelectSchedules
    /\ wait_one_fut = "Woken"
    /\ run_inject(TRUE)

\* A call of scheduled_barriers.abort().
call_abort ==
    /\ loop = "select"
    /\ LET r == abort(buffer, notified)
       IN  /\ buffer' = r.buffer
           /\ notified' = r.notified
    /\ UNCHANGED <<row_number_state, inject_call, wait_one_fut,
                   panic_err, persisted_prev_epoch, enable_recovery,
                   shutdown_rx, in_flight_prev_epoch, is_recovery, is_build_actor,
                   command_ctx_queue, tracker, tasks, barrier_complete_rx, loop,
                   commit_epoch_calls, callers>>

NextScheduled ==
    \/ schedule_commands
    \/ attach_next_barrier
    \/ call_abort
    \/ select_wait_one
    \/ steady_wait_one
    \/ steady_wait_one_changed
    \/ steady_tick

SpecScheduled == Init /\ [][NextScheduled]_vars

\* ================================================================ claims
Nodes == {command_ctx_queue[i] : i \in 1..Len(command_ctx_queue)}

\* The notifiers that exist and belong to an injected barrier.
Injected == {n \in NotifierIds : notified[n].curr_epoch >= 1}

\* A step of the main loop that pushes a node to the pipeline.
Injects == Len(command_ctx_queue') = Len(command_ctx_queue) + 1

\* A step of the main loop that pops an entry of the scheduled buffer.
Pops == Len(buffer') < Len(buffer)

\* C1: the prev_epoch arguments of successive commit_epoch calls are strictly
\* ascending: no epoch is committed twice, none ahead of an earlier one.
MonotoneCommit ==
    \A i, j \in 1..Len(commit_epoch_calls) :
        i < j => commit_epoch_calls[i] < commit_epoch_calls[j]

\* Two commit_epoch calls have been made and the loop is still running.
MonotoneCommitWitness ==
    /\ Len(commit_epoch_calls) >= 2
    /\ loop = "select"

\* C2: every injected barrier gets curr_epoch = next(in_flight_prev_epoch),
\* larger than its prev_epoch and than every epoch injected before it, and
\* the nodes of command_ctx_queue are strictly increasing from front to back.
MonotoneInjection ==
    /\ [](\A i, j \in 1..Len(command_ctx_queue) :
            /\ command_ctx_queue[i].prev_epoch < command_ctx_queue[i].curr_epoch
            /\ i < j => command_ctx_queue[i].curr_epoch < command_ctx_queue[j].curr_epoch)
    /\ [][/\ in_flight_prev_epoch' >= in_flight_prev_epoch
          /\ Injects =>
               LET node == command_ctx_queue'[Len(command_ctx_queue')]
               IN  /\ node.prev_epoch = in_flight_prev_epoch
                   /\ node.curr_epoch = next(in_flight_prev_epoch)
                   /\ node.curr_epoch = in_flight_prev_epoch'
                   /\ node.curr_epoch > node.prev_epoch
                   /\ \A m \in Nodes : m.curr_epoch < node.curr_epoch]_vars

\* Three barriers are in the pipeline at once.
MonotoneInjectionWitness == Len(command_ctx_queue) >= 3

\* C3: the number of InFlight nodes never exceeds in_flight_barrier_nums.
BoundedInFlight == InFlightCount(command_ctx_queue) <= in_flight_barrier_nums

\* The cap is reached.
BoundedInFlightWitness == InFlightCount(command_ctx_queue) = in_flight_barrier_nums

\* C4, as claimed: the pipeline never holds more than in_flight_barrier_nums nodes.
DepthBounded == Len(command_ctx_queue) <= in_flight_barrier_nums

\* C4, amended: a barrier is injected only from a state in which fewer than
\* in_flight_barrier_nums nodes are InFlight and neither flag is set; Complete
\* nodes waiting behind an InFlight head are not counted.
AdmissionCountsInFlight ==
    [][Injects =>
         /\ InFlightCount(command_ctx_queue) < in_flight_barrier_nums
         /\ ~is_recovery
         /\ ~is_build_actor
         /\ InFlightCount(command_ctx_queue') <= in_flight_barrier_nums]_vars

\* The pipeline is deeper than the cap although the InFlight count is within it.
AdmissionCountsInFlightWitness ==
    /\ Len(command_ctx_queue) > in_flight_barrier_nums
    /\ InFlightCount(command_ctx_queue) <= in_flight_barrier_nums

\* C5: while a node with a non-Plain command is in the pipeline,
\* is_build_actor is set and the loop injects no barrier and pops no entry.
Exclusion ==
    /\ []((\E node \in Nodes : node.command # "Plain") => is_build_actor)
    /\ [][(\E node \in Nodes : node.command # "Plain") => ~Injects /\ ~Pops]_vars

\* A non-Plain node is in the pipeline in a state where the select has no
\* completion to take and the InFlight count would admit another barrier.
ExclusionWitness ==
    /\ \E node \in Nodes : node.command # "Plain"
    /\ loop = "select"
    /\ barrier_complete_rx = <<>>
    /\ ~is_recovery
    /\ InFlightCount(command_ctx_queue) < in_flight_barrier_nums

\* C6, as claimed: once the completion of an epoch that failed has been
\* applied, the loop pops no entry and injects no barrier.
NoInjectionAfterError ==
    [][(\E node \in Nodes : node.result = "Err" \/ node.states = "Fail")
         => ~Injects /\ ~Pops]_vars

\* C6, amended: while a node of the pipeline is Fail (the head, set together
\* with is_recovery by a failed commit pass), the loop pops no entry and
\* injects no barrier.
NoInjectionWhileFailed ==
    /\ []((\E node \in Nodes : node.states = "Fail") => is_recovery)
    /\ [][(\E node \in Nodes : node.states = "Fail") => ~Injects /\ ~Pops]_vars

\* The head is Fail while another barrier is still InFlight, the select has
\* no completion to take and the InFlight count is below the cap.
NoInjectionWhileFailedWitness ==
    /\ command_ctx_queue # <<>>
    /\ Head(command_ctx_queue).states = "Fail"
    /\ InFlightCount(command_ctx_queue) \in 1..(in_flight_barrier_nums - 1)
    /\ loop = "select"
    /\ barrier_complete_rx = <<>>

\* C7: on every notifier, notify_collected and notify_collection_failed never
\* both run and each runs at most once; while the notifier's node is in the
\* pipeline neither has run.
CollectedXorFailed ==
    \A n \in NotifierIds :
        /\ notified[n].collected + notified[n].failed <= 1
        /\ (\E node \in Nodes : n \in node.notifiers) =>
               notified[n].collected + notified[n].failed = 0

\* A notifier of an injected barrier was failed by a drain.
CollectedXorFailedWitness ==
    \E n \in Injected : notified[n].failed = 1

\* C8: notify_finished runs on a notifier only after notify_collected has,
\* at most once, and never on a notifier that was failed.
FinishedAfterCollected ==
    \A n \in NotifierIds :
        notified[n].finished >= 1 =>
            /\ notified[n].finished = 1
            /\ notified[n].collected = 1
            /\ notified[n].failed = 0

\* A notifier of an injected barrier was notified finished.
FinishedAfterCollectedWitness ==
    \E n \in Injected : notified[n].finished = 1

\* C9, as claimed: to_send has not fired for the notifiers of a barrier whose
\* inject failed.
ToSendImpliesInjected ==
    \A n \in Injected : notified[n].to_send >= 1 => notified[n].inject = "Ok"

\* C9, amended: to_send fires exactly once when the entry of the notifier is
\* popped by the loop, before the inject and whatever the inject returns, and
\* not before.
ToSendWhenPopped ==
    \A n \in NotifierIds :
        notified[n].to_send = IF notified[n].curr_epoch \in {-1, 0} THEN 0 ELSE 1

\* to_send has fired for a barrier whose inject failed.
ToSendWhenPoppedWitness ==
    \E n \in Injected : notified[n].to_send = 1 /\ notified[n].inject = "Err"

\* C10: notify_collected runs on the notifiers of an injected barrier only
\* after its collect returned Ok, commit_epoch(prev_epoch) succeeded (when
\* prev_epoch is not INVALID_EPOCH) and its post_collect succeeded.
CollectedAfterCommit ==
    \A n \in Injected :
        notified[n].collected >= 1 =>
            /\ notified[n].inject = "Ok"
            /\ notified[n].collect = "Ok"
            /\ notified[n].post_collect = "Ok"
            /\ IF notified[n].prev_epoch = INVALID_EPOCH
               THEN notified[n].commit_epoch = "None"
               ELSE /\ notified[n].commit_epoch = "Ok"
                    /\ \E i \in 1..Len(commit_epoch_calls) :
                           commit_epoch_calls[i] = notified[n].prev_epoch

\* A notifier of a barrier with a valid prev_epoch was notified collected.
CollectedAfterCommitWitness ==
    \E n \in Injected :
        notified[n].collected = 1 /\ notified[n].prev_epoch # INVALID_EPOCH

\* The prev_epoch arguments of the commit_epoch calls made in this step.
NewCalls ==
    {commit_epoch_calls'[i] : i \in (Len(commit_epoch_calls) + 1)..Len(commit_epoch_calls')}

\* The notifiers on which notify_collected runs in this step.
NewlyCollected == {n \in NotifierIds : notified'[n].collected > notified[n].collected}

FailedEpochNotCommitted ==
    \A n \in Injected :
        (notified[n].inject = "Err" \/ notified[n].collect = "Err") =>
            /\ notified[n].commit_epoch = "None"
            /\ notified[n].post_collect = "None"
            /\ notified[n].collected = 0
            /\ \A k \in 1..Len(commit_epoch_calls) :
                   commit_epoch_calls[k] # notified[n].prev_epoch

\* The same for the barriers whose prev_epoch is not INVALID_EPOCH, the ones
\* whose result try_commit_epoch looks at (line 628).
FailedValidEpochNotCommitted ==
    \A n \in Injected :
        (notified[n].prev_epoch # INVALID_EPOCH
           /\ (notified[n].inject = "Err" \/ notified[n].collect = "Err")) =>
            /\ notified[n].commit_epoch = "None"
            /\ notified[n].post_collect = "None"
            /\ notified[n].collected = 0
            /\ \A k \in 1..Len(commit_epoch_calls) :
                   commit_epoch_calls[k] # notified[n].prev_epoch

\* C13: when collect succeeded for a barrier and its commit_epoch or its
\* post_collect returned an error, its node is the Fail head and is_recovery
\* is set for as long as some node is InFlight; once none is, the pipeline
\* has been drained, the notifiers of the barrier have been failed and, with
\* recovery enabled, the loop runs on from the recovered epoch.
CommitFailureRecovers ==
    \A n \in Injected :
        (notified[n].collect = "Ok"
           /\ (notified[n].commit_epoch = "Err" \/ notified[n].post_collect = "Err")) =>
            IF \E node \in Nodes : n \in node.notifiers
            THEN /\ n \in Head(command_ctx_queue).notifiers
                 /\ Head(command_ctx_queue).states = "Fail"
                 /\ is_recovery
                 /\ InFlightCount(command_ctx_queue) > 0
            ELSE /\ notified[n].failed = 1
                 /\ notified[n].collected = 0
                 /\ enable_recovery => loop = "select"

\* C14: when a commit pass commits at least one barrier and then fails on
\* the commit_epoch or post_collect of the next one, the notifiers notified
\* collected keep it, and, once no node is InFlight, the notifiers of the
\* failing barrier and of every later node have been failed.
CommitInTheMiddle ==
    [][\A n \in Injected :
         (/\ notified[n].commit_epoch # "Err" /\ notified[n].post_collect # "Err"
          /\ notified'[n].collect = "Ok"
          /\ notified'[n].commit_epoch = "Err" \/ notified'[n].post_collect = "Err"
          /\ Len(command_ctx_queue') < Len(command_ctx_queue)
          /\ InFlightCount(command_ctx_queue') = 0) =>
             /\ notified'[n].failed = 1
             /\ command_ctx_queue' = <<>>
             /\ \A m \in NotifierIds :
                    /\ notified[m].collected = 1 => notified'[m].collected = 1
                    /\ (\E node \in Nodes : m \in node.notifiers) =>
                           notified'[m].collected + notified'[m].failed = 1]_vars

\* C15, as claimed: once the pipeline holds in_flight_barrier_nums nodes the
\* loop takes no scheduling event: it pops no entry and injects no barrier
\* until a node has been popped.
BackpressureOnDepth ==
    [][Len(command_ctx_queue) >= in_flight_barrier_nums => ~Injects /\ ~Pops]_vars

\* C15, amended: while in_flight_barrier_nums nodes are InFlight the loop
\* takes no scheduling event: it pops no entry and injects no barrier, and
\* the InFlight count only goes down by the loop receiving a completion.
BackpressureOnInFlight ==
    [][InFlightCount(command_ctx_queue) >= in_flight_barrier_nums =>
         /\ ~Injects
         /\ ~Pops
         /\ InFlightCount(command_ctx_queue') < InFlightCount(command_ctx_queue) =>
                Len(barrier_complete_rx') < Len(barrier_complete_rx)]_vars

\* The cap is reached with an entry waiting in the buffer, the select has no
\* completion to take and neither flag is set: only the count holds the entry back.
BackpressureOnInFlightWitness ==
    /\ InFlightCount(command_ctx_queue) = in_flight_barrier_nums
    /\ buffer # <<>>
    /\ loop = "select"
    /\ barrier_complete_rx = <<>>
    /\ ~is_recovery
    /\ ~is_build_actor

\* C16: a step of the loop that pops an entry and finds nothing to do
\* notifies the entry's notifiers to_send and collected and changes nothing
\* else: no task is spawned, no epoch allocated, no node pushed, no
\* commit_epoch call made, and both admission flags stay as they were.
FastPathFrame ==
    [][(Pops /\ ~Injects) =>
         /\ \A n \in Head(buffer).notifiers :
                /\ notified'[n].to_send = 1
                /\ notified'[n].collected = 1
                /\ notified'[n].failed = 0
         /\ UNCHANGED <<in_flight_prev_epoch, command_ctx_queue, tasks, barrier_complete_rx,
                        commit_epoch_calls, tracker, is_recovery, is_build_actor>>]_vars

\* The prev_epochs of the barriers injected so far, when no recovery has run
\* since the loop started.
InjectedEpochs == FirstEpoch..(in_flight_prev_epoch - 1)

\* The prev_epochs of the barriers that have left the pipeline.
LeftPipeline == {e \in InjectedEpochs : \A node \in Nodes : node.prev_epoch # e}

\* A popped entry makes exactly one barrier: the step that pops it pushes one
\* node, which carries the command and the notifiers of the entry.
OneBarrierPerEntry ==
    /\ Pops => Injects
    /\ (Injects /\ buffer # <<>>) =>
          /\ buffer' = Tail(buffer)
          /\ command_ctx_queue'[Len(command_ctx_queue')].command = Head(buffer).command
          /\ command_ctx_queue'[Len(command_ctx_queue')].notifiers = Head(buffer).notifiers

\* C17, as claimed: without faults every scheduled entry makes exactly one
\* barrier and every barrier that has left the pipeline has had exactly one
\* commit_epoch call.
OneCommitPerBarrier ==
    /\ [][OneBarrierPerEntry]_vars
    /\ [](/\ SeqToSet(commit_epoch_calls) = LeftPipeline
          /\ Len(commit_epoch_calls) = Cardinality(LeftPipeline))

\* C17, amended: the same for the barriers whose prev_epoch is not
\* INVALID_EPOCH; the barrier with prev_epoch INVALID_EPOCH has no
\* commit_epoch call.
OneCommitPerValidBarrier ==
    /\ [][OneBarrierPerEntry]_vars
    /\ [](/\ SeqToSet(commit_epoch_calls) = LeftPipeline \ {INVALID_EPOCH}
          /\ Len(commit_epoch_calls) = Cardinality(LeftPipeline \ {INVALID_EPOCH}))

\* Two schedule_command calls have been made and both barriers have been
\* committed and have left the pipeline.
OneCommitPerValidBarrierWitness ==
    /\ \A n \in 1..2 :
           /\ notified[n].collected = 1
           /\ \E k \in 1..Len(commit_epoch_calls) :
                  commit_epoch_calls[k] = notified[n].prev_epoch
    /\ notified[1].curr_epoch # notified[2].curr_epoch
    /\ command_ctx_queue = <<>>

\* The Notifiers made by run_command whose barrier has been injected.
RunCallers ==
    {n \in NotifierIds : callers[n].api = "run_command" /\ notified[n].curr_epoch >= 1}

\* C18: run_command returns Ok only after notify_collected and
\* notify_finished have both run on its Notifier; after
\* notify_collection_failed it returns the error and never awaits finished;
\* and once notify_collected has run, notify_finished has run or the
\* Notifier is still held by the tracker, so that the call can resolve.
RunCommandResolves ==
    \A n \in RunCallers :
        /\ callers[n].pc = "Ok" =>
               notified[n].collected = 1 /\ notified[n].finished = 1
        /\ notified[n].failed = 1 =>
               /\ callers[n].pc \in {"collect_rx", "Err"}
               /\ notified[n].finished = 0
        /\ (callers[n].pc = "Err" /\ callers[n].pins = 0 /\ ~callers[n].is_create_mv) =>
               notified[n].failed = 1
        /\ (notified[n].collected = 1 /\ notified[n].finished = 0 /\ loop = "select") =>
               \E t \in tracker : n \in t.notifiers
        /\ loop = "select" => callers[n].pc # "panicked"

\* C19: pin_snapshot is called only by a run_command of a
\* CreateMaterializedView and only after notify_collected; unpin_snapshot is
\* called only after notify_finished, once per pin; and while a snapshot is
\* pinned and not yet unpinned the call awaits a finished channel that has
\* fired or can still fire.
PinnedUntilFinished ==
    \A n \in RunCallers :
        /\ callers[n].pins >= 1 =>
               /\ callers[n].is_create_mv
               /\ notified[n].collected = 1
               /\ notified[n].failed = 0
        /\ callers[n].pins <= 1
        /\ callers[n].unpins <= callers[n].pins
        /\ callers[n].unpins >= 1 => notified[n].finished = 1
        /\ callers[n].pc = "Ok" => callers[n].unpins = callers[n].pins
        /\ (callers[n].pins > callers[n].unpins /\ loop = "select") =>
               /\ callers[n].pc = "finish_rx"
               /\ finish_rx(n) # "Closed"

\* The notifiers waiting in the entries of the buffer.
Scheduled == UNION {buffer[i].notifiers : i \in 1..Len(buffer)}

ShutdownFirst ==
    /\ [][shutdown_rx = "Ready" =>
            /\ ~Injects
            /\ ~Pops
            /\ UNCHANGED <<command_ctx_queue, commit_epoch_calls, in_flight_prev_epoch,
                           tracker, is_recovery, is_build_actor, shutdown_rx>>
            /\ \A n \in NotifierIds :
                   notified[n].curr_epoch # -1 => notified'[n] = notified[n]
            /\ Len(barrier_complete_rx') >= Len(barrier_complete_rx)
            /\ loop' \in {loop, "returned"}]_vars
    /\ [][(Injects \/ Pops) => barrier_complete_rx = <<>>]_vars
    /\ [](loop = "returned" => shutdown_rx = "Ready")

\* run() has returned on shutdown while a completion was ready and the
\* pipeline held a Fail head waiting for an InFlight node, the notifier of
\* the head neither collected nor failed.
ShutdownFirstWitness ==
    /\ loop = "returned"
    /\ barrier_complete_rx # <<>>
    /\ Len(command_ctx_queue) >= 2
    /\ Head(command_ctx_queue).states = "Fail"
    /\ InFlightCount(command_ctx_queue) >= 1
    /\ \E n \in Head(command_ctx_queue).notifiers :
           notified[n].collected = 0 /\ notified[n].failed = 0

\* The tracker entries that hold Notifier n, in this state and in the next.
Tracking(n) == {t \in tracker : n \in t.notifiers}

TrackingNext(n) == {t \in tracker' : n \in t.notifiers}

\* The actors reported done by the responses of the nodes that were Complete
\* before this step and are committed in it.
AppliedProgress ==
    UNION {node.progress : node \in {m \in Nodes :
               /\ m.states = "Complete"
               /\ m.prev_epoch \in NewCalls
               /\ \A i \in 1..Len(command_ctx_queue') :
                      command_ctx_queue'[i].prev_epoch # m.prev_epoch}}

\* This step drains the pipeline and recovers (lines 574-610): the loop
\* runs on with an empty pipeline whose last node was not committed.
Recovers ==
    /\ command_ctx_queue # <<>>
    /\ command_ctx_queue' = <<>>
    /\ loop' = "select"
    /\ command_ctx_queue[Len(command_ctx_queue)].prev_epoch \notin NewCalls
    /\ command_ctx_queue[Len(command_ctx_queue)].prev_epoch # INVALID_EPOCH

RowNumberFifo ==
    LET h == row_number_state
        st == h.state
        k == h.slides
    IN  /\ curr_window(st).is_ready <=> st.buffer # <<>>
        /\ curr_window(st).is_ready => curr_window(st).key = Head(st.buffer)
        /\ st.panicked <=> h.bad_use
        /\ (~h.bad_use /\ h.slides_no_output = 0) =>
               /\ k <= Len(h.appended)
               /\ st.curr_row_number = k + 1
               /\ st.buffer = SubSeq(h.appended, k + 1, Len(h.appended))
               /\ st.first_key = IF h.appended = <<>> THEN None ELSE h.appended[1]
               /\ k >= 1 =>
                      /\ h.returned = [output |-> k, hint |-> h.appended[1]]
                      /\ h.removed = h.appended[k]

\* The calls of test_row_number_state up to its second slide: 100 appended
\* and slid, 103 and 102 appended, 103 slid with row number 2.
RowNumberFifoWitness ==
    /\ row_number_state.appended = <<100, 103, 102>>
    /\ row_number_state.slides = 2
    /\ row_number_state.slides_no_output = 0
    /\ row_number_state.removed = 103
    /\ row_number_state.state.buffer = <<102>>
    /\ ~row_number_state.state.panicked

\* The notifiers on which notify_collection_failed runs in this step.
NewlyFailed == {n \in NotifierIds : notified'[n].failed > notified[n].failed}

\* C24: a Fail head stays in a running loop only while some node is InFlight.
\* Recovery is invoked, and notifiers are failed, only by the step that
\* applies the completion of the last InFlight node, over a head that is
\* Fail or fails in that step, and it leaves the pipeline empty. A step that
\* leaves a node InFlight behind a Fail head keeps every node, the head as
\* it is, notifies nobody and invokes no recovery; and with two or more
\* nodes InFlight the only nodes that leave the pipeline are committed ones,
\* from the front.
DrainGate ==
    /\ []((loop = "select" /\ command_ctx_queue # <<>>
             /\ Head(command_ctx_queue).states = "Fail") =>
               /\ InFlightCount(command_ctx_queue) >= 1
               /\ is_recovery)
    /\ [][(Recovers \/ NewlyFailed # {}) =>
             /\ InFlightCount(command_ctx_queue) = 1
             /\ Head(command_ctx_queue).states \in {"Fail", "InFlight"}
             /\ Len(barrier_complete_rx') < Len(barrier_complete_rx)
             /\ command_ctx_queue' = <<>>
             /\ Recovers => enable_recovery]_vars
    /\ [][(/\ command_ctx_queue # <<>>
           /\ Head(command_ctx_queue).states = "Fail"
           /\ InFlightCount(command_ctx_queue') >= 1) =>
             /\ Len(command_ctx_queue') = Len(command_ctx_queue)
             /\ Head(command_ctx_queue') = Head(command_ctx_queue)
             /\ \A i \in 1..Len(command_ctx_queue) :
                    /\ command_ctx_queue'[i].prev_epoch = command_ctx_queue[i].prev_epoch
                    /\ command_ctx_queue'[i].notifiers = command_ctx_queue[i].notifiers
                    /\ \A n \in command_ctx_queue[i].notifiers :
                           notified'[n].collected = 0 /\ notified'[n].failed = 0
             /\ UNCHANGED <<in_flight_prev_epoch, tracker, commit_epoch_calls, is_recovery>>]_vars
    /\ [][(InFlightCount(command_ctx_queue) >= 2
             /\ Len(command_ctx_queue') < Len(command_ctx_queue)) =>
             /\ InFlightCount(command_ctx_queue') = InFlightCount(command_ctx_queue) - 1
             /\ \A i \in 1..Len(command_ctx_queue') :
                    command_ctx_queue'[i].prev_epoch =
                        command_ctx_queue[i + Len(command_ctx_queue)
                                            - Len(command_ctx_queue')].prev_epoch]_vars

\* The head is Fail, a later node has completed and another is still
\* InFlight: the drain waits with three nodes in the pipeline.
DrainGateWitness ==
    /\ loop = "select"
    /\ Len(command_ctx_queue) >= 3
    /\ Head(command_ctx_queue).states = "Fail"
    /\ \E i \in 2..Len(command_ctx_queue) : command_ctx_queue[i].states = "Complete"
    /\ InFlightCount(command_ctx_queue) = 1

\* The errors try_commit_epoch returns, one of which the Fail head carries.
HeadErrors == {"RpcErr", "CommitErr", "PostCollectErr"}

\* A step in which the drain has run: it failed a notifier or went on to recovery.
Drains == NewlyFailed # {} \/ Recovers

\* The drain empties the pipeline, and of the nodes that were in it every
\* notifier is notified once in all, collected by the commit pass of the same
\* step or failed by the drain, the failed ones behind the collected ones.
DrainEmptiesPipeline ==
    Drains =>
        /\ command_ctx_queue' = <<>>
        /\ NewlyFailed \subseteq UNION {node.notifiers : node \in Nodes}
        /\ \A i \in 1..Len(command_ctx_queue) :
               \A n \in command_ctx_queue[i].notifiers :
                   /\ notified'[n].collected + notified'[n].failed = 1
                   /\ n \in NewlyFailed =>
                          /\ notified'[n].collected = 0
                          /\ \A j \in (i + 1)..Len(command_ctx_queue) :
                                 command_ctx_queue[j].notifiers \subseteq NewlyFailed

\* C25, as claimed: on drain every notifier of the pipeline is failed with
\* the error of the Fail head, none is notified collected by the drain, and
\* the pipeline is empty afterwards.
DrainCarriesHeadError ==
    [][/\ DrainEmptiesPipeline
       /\ \A n, m \in NewlyFailed :
              /\ notified'[n].failed_err \in HeadErrors
              /\ notified'[n].failed_err = notified'[m].failed_err
              /\ Head(command_ctx_queue).states = "Fail" =>
                     notified'[n].failed_err = Head(command_ctx_queue).fail_err]_vars

\* C25, amended: the same, except for the error: the notifiers of the Fail
\* head are failed with the error the head failed with, the notifiers of
\* every node behind it with the InternalError "err from before epoch".
DrainCarriesNodeError ==
    [][/\ DrainEmptiesPipeline
       /\ \A i \in 1..Len(command_ctx_queue) :
              \A n \in command_ctx_queue[i].notifiers \cap NewlyFailed :
                  LET uncommitted ==
                          {j \in 1..(i - 1) :
                              \/ command_ctx_queue[j].notifiers \cap NewlyFailed # {}
                              \/ /\ command_ctx_queue[j].prev_epoch \notin NewCalls
                                 /\ command_ctx_queue[j].prev_epoch # INVALID_EPOCH}
                  IN  /\ notified'[n].failed_err \in HeadErrors \cup {"err from before epoch"}
                      /\ uncommitted # {} =>
                             notified'[n].failed_err = "err from before epoch"
                      /\ notified'[n].failed_err = "err from before epoch" =>
                             /\ i >= 2
                             /\ \A j \in (i + 1)..Len(command_ctx_queue) :
                                    \A m \in command_ctx_queue[j].notifiers :
                                        notified'[m].failed_err = "err from before epoch"
                      /\ (i = 1 /\ Head(command_ctx_queue).states = "Fail") =>
                             notified'[n].failed_err = Head(command_ctx_queue).fail_err]_vars

\* A drain has failed the notifier of a node behind the head with
\* "err from before epoch", and the loop runs on with an empty pipeline.
DrainCarriesNodeErrorWitness ==
    /\ loop = "select"
    /\ command_ctx_queue = <<>>
    /\ \E n \in Injected :
           /\ notified[n].failed = 1
           /\ notified[n].failed_err = "err from before epoch"

\* The positions of the Fail nodes of the pipeline.
FailedAt == {i \in 1..Len(command_ctx_queue) : command_ctx_queue[i].states = "Fail"}

\* C26: while run() has not panicked, a Fail node is the head of the
\* pipeline, so there is at most one, and is_recovery is set exactly when
\* there is one; is_recovery is set by the step that makes the head Fail
\* and cleared only by the step in which recovery returns.
OneFailedHead ==
    /\ [](loop # "panicked" =>
             /\ FailedAt \subseteq {1}
             /\ is_recovery <=> FailedAt = {1})
    /\ [][/\ (~is_recovery /\ is_recovery' /\ loop' # "panicked") =>
                /\ Len(barrier_complete_rx') < Len(barrier_complete_rx)
                /\ command_ctx_queue' # <<>>
                /\ Head(command_ctx_queue').states = "Fail"
                /\ Head(command_ctx_queue').fail_err \in HeadErrors
          /\ (is_recovery /\ ~is_recovery') =>
                /\ Recovers
                /\ enable_recovery]_vars

\* The head, with a caller's notifier, is Fail by an error of commit_epoch
\* and is_recovery is set, while a later barrier is still InFlight.
OneFailedHeadWitness ==
    /\ loop = "select"
    /\ is_recovery
    /\ FailedAt = {1}
    /\ Head(command_ctx_queue).fail_err = "CommitErr"
    /\ Head(command_ctx_queue).notifiers # {}
    /\ InFlightCount(command_ctx_queue) >= 1

\* C27: recovery is called with the curr_epoch of the last node of the
\* drained pipeline, which is the largest curr_epoch of the pipeline and the
\* last epoch the loop allocated, and the curr_epoch of the Fail head when
\* the head is the only node; the loop runs on from the epoch recovery
\* returns for it.
RecoveryFromLastEpoch ==
    /\ [](command_ctx_queue # <<>> =>
             /\ command_ctx_queue[Len(command_ctx_queue)].curr_epoch = in_flight_prev_epoch
             /\ \A node \in Nodes :
                    node.curr_epoch <= command_ctx_queue[Len(command_ctx_queue)].curr_epoch)
    /\ [][Recovers =>
             LET back == command_ctx_queue[Len(command_ctx_queue)]
             IN  /\ \A node \in Nodes : node.curr_epoch <= back.curr_epoch
                 /\ \E tracked \in RecoveredActors :
                        in_flight_prev_epoch' = recovery(back.curr_epoch, tracked).new_epoch
                 /\ in_flight_prev_epoch' > back.curr_epoch
                 /\ Len(command_ctx_queue) = 1 =>
                        in_flight_prev_epoch' =
                            recovery(Head(command_ctx_queue).curr_epoch, {}).new_epoch]_vars

\* The loop runs on after a recovery that drained at least two nodes: the
\* failed notifier belongs to a barrier two epochs or more before the
\* epoch the loop runs on from.
RecoveryFromLastEpochWitness ==
    /\ loop = "select"
    /\ command_ctx_queue = <<>>
    /\ ~is_recovery
    /\ \E n \in Injected :
           /\ notified[n].failed = 1
           /\ notified[n].failed_err \in HeadErrors
           /\ in_flight_prev_epoch = notified[n].curr_epoch + 2

\* The tracker CreateMviewProgressTracker::default() followed by
\* add(new_epoch, actors, vec![]) gives.
Seeded(new_epoch, actors) ==
    IF actors = {}
    THEN {}
    ELSE {[epoch |-> new_epoch, actors |-> actors, notifiers |-> {}]}

\* C28: the step in which recovery returns leaves a tracker that holds
\* nothing but what recovery returned (no entry and no Notifier of before),
\* in_flight_prev_epoch equal to the returned epoch and written to the meta
\* store, and is_recovery cleared; the epoch then stays until the next
\* barrier is injected, which takes it as its prev_epoch.
AfterRecovery ==
    /\ [][Recovers =>
             LET back == command_ctx_queue[Len(command_ctx_queue)]
             IN  \E tracked \in RecoveredActors :
                     LET rec == recovery(back.curr_epoch, tracked)
                     IN  /\ in_flight_prev_epoch' = rec.new_epoch
                         /\ persisted_prev_epoch' = rec.new_epoch
                         /\ tracker' = Seeded(rec.new_epoch, rec.actors_to_track)
                         /\ ~is_recovery'
                         /\ enable_recovery]_vars
    /\ [][IF Injects
          THEN /\ command_ctx_queue'[Len(command_ctx_queue')].prev_epoch = in_flight_prev_epoch
               /\ persisted_prev_epoch' = in_flight_prev_epoch'
          ELSE \/ Recovers
               \/ UNCHANGED <<in_flight_prev_epoch, persisted_prev_epoch>>]_vars
    /\ [](persisted_prev_epoch = in_flight_prev_epoch)

\* After a recovery that returned actors to track, the next barrier has
\* been injected with the returned epoch as its prev_epoch, the seeded
\* entry still in the tracker.
AfterRecoveryWitness ==
    /\ loop = "select"
    /\ ~is_recovery
    /\ Len(command_ctx_queue) = 1
    /\ \E t \in tracker :
           /\ t.notifiers = {}
           /\ t.actors = Actors
           /\ t.epoch = Head(command_ctx_queue).prev_epoch
    /\ \E n \in Injected :
           notified[n].failed = 1 /\ notified[n].curr_epoch < Head(command_ctx_queue).prev_epoch

\* C29: with recovery disabled, a step whose drain fails notifiers fails
\* those of every node left in the pipeline, empties the pipeline and ends in
\* the panic of line 612, which names the error the inject or collect of the
\* Fail head returned; that panic happens only so; and once run() has
\* panicked no barrier is injected and no entry popped.
PanicWithoutRecovery ==
    /\ [][(~enable_recovery /\ NewlyFailed # {}) =>
             /\ DrainEmptiesPipeline
             /\ loop' = "panicked"
             /\ panic_err' = "RpcErr"
             /\ \A n \in NewlyFailed :
                    notified'[n].failed_err \in HeadErrors =>
                        notified'[n].inject = "Err" \/ notified'[n].collect = "Err"]_vars
    /\ [][(panic_err = "None" /\ panic_err' # "None") =>
             /\ ~enable_recovery
             /\ loop = "select"
             /\ loop' = "panicked"
             /\ command_ctx_queue # <<>>
             /\ command_ctx_queue' = <<>>
             /\ command_ctx_queue[Len(command_ctx_queue)].prev_epoch \notin NewCalls
             /\ \A n \in command_ctx_queue[Len(command_ctx_queue)].notifiers :
                    n \in NewlyFailed
             /\ \A node \in Nodes : \A n \in node.notifiers :
                    notified'[n].collected + notified'[n].failed = 1]_vars
    /\ [][loop = "panicked" =>
             /\ ~Injects
             /\ ~Pops
             /\ UNCHANGED <<in_flight_prev_epoch, command_ctx_queue, tasks, notified,
                            commit_epoch_calls>>]_vars
    /\ [](panic_err # "None" => loop = "panicked" /\ ~enable_recovery)

\* With recovery disabled run() has panicked after a drain of two nodes or
\* more: a notifier behind the head was failed.
PanicWithoutRecoveryWitness ==
    /\ ~enable_recovery
    /\ loop = "panicked"
    /\ panic_err = "RpcErr"
    /\ command_ctx_queue = <<>>
    /\ \E n \in Injected :
           notified[n].failed = 1 /\ notified[n].failed_err = "err from before epoch"

\* C30: commit_epoch is never called with INVALID_EPOCH. For a barrier whose
\* prev_epoch is INVALID_EPOCH no commit_epoch call is recorded; once its
\* collect has returned Ok its post_collect has run, and when that succeeded
\* the node has been popped and its notifiers notified collected. A barrier
\* with another prev_epoch whose notifiers were notified collected has had
\* exactly one commit_epoch(prev_epoch) call, which succeeded.
InvalidEpochSkipsCommit ==
    /\ \A k \in 1..Len(commit_epoch_calls) : commit_epoch_calls[k] # INVALID_EPOCH
    /\ \A n \in Injected :
           IF notified[n].prev_epoch = INVALID_EPOCH
           THEN /\ notified[n].commit_epoch = "None"
                /\ notified[n].collect = "Ok" =>
                       /\ notified[n].post_collect \in {"Ok", "Err"}
                       /\ notified[n].post_collect = "Ok" =>
                              /\ notified[n].collected = 1
                              /\ notified[n].failed = 0
                              /\ \A node \in Nodes : n \notin node.notifiers
                       /\ notified[n].post_collect = "Err" => notified[n].collected = 0
           ELSE notified[n].collected = 1 =>
                    /\ notified[n].commit_epoch = "Ok"
                    /\ Cardinality({k \in 1..Len(commit_epoch_calls) :
                                       commit_epoch_calls[k] = notified[n].prev_epoch}) = 1

\* The notifier of the first barrier, with prev_epoch INVALID_EPOCH, has
\* been notified collected without a commit_epoch call for it, and a later
\* barrier has been committed.
InvalidEpochSkipsCommitWitness ==
    /\ \E n \in Injected :
           /\ notified[n].prev_epoch = INVALID_EPOCH
           /\ notified[n].collected = 1
           /\ notified[n].post_collect = "Ok"
    /\ Len(commit_epoch_calls) >= 1
    /\ loop = "select"

\* ---------------------------------------------------------------- C31
\* The barriers handed to inject_and_send_err whose completion the main loop
\* has not received yet: those of the spawned tasks and of the channel.
Sent == tasks \cup SeqToSet(barrier_complete_rx)

\* C31: the epoch is persisted before its barrier is injected: when the
\* barrier with curr_epoch c (prev_epoch p, c = next(p)) was handed to
\* inject_and_send_err, the record of the meta store already was c.
PersistedBeforeInject ==
    \A t \in Sent : t.persisted = next(t.prev_epoch)

\* A second barrier was injected successfully while the first one is still
\* awaiting its collect, each with its own epoch persisted.
PersistedBeforeInjectWitness ==
    /\ Cardinality({t \in Sent : t.kind = "collect"}) >= 2
    /\ \E i \in 1..Len(command_ctx_queue) :
           /\ command_ctx_queue[i].curr_epoch = persisted_prev_epoch
           /\ \E t \in Sent : /\ t.prev_epoch = command_ctx_queue[i].prev_epoch
                               /\ t.persisted = persisted_prev_epoch
\* ---------------------------------------------------------------- C32
\* The workers of the call whose actor_ids_to_collect is not empty.
Collecting == {w \in Workers : inject_call.info[w] # {}}

\* C32: two phases: the inject RPCs of an epoch go to no worker but those
\* with actors to collect, and to every one of them once the mutation is
\* built; collect RPCs are made only when every inject RPC succeeded, and
\* then for the same workers; after a failed inject there is no collect RPC
\* and the one completion sent for the epoch is the error; no epoch gets
\* more than one completion.
TwoPhase ==
    inject_call.pc # "None" =>
        /\ inject_call.inject_rpcs \subseteq Collecting
        /\ inject_call.mutation_ok => inject_call.inject_rpcs = Collecting
        /\ inject_call.pc = "collect_task" =>
               (inject_call.mutation_ok /\ inject_call.inject_errs = {})
        /\ inject_call.pc = "err_task" =>
               ~(inject_call.mutation_ok /\ inject_call.inject_errs = {})
        /\ inject_call.collect_rpcs # {} =>
               (inject_call.mutation_ok /\ inject_call.inject_errs = {})
        /\ inject_call.pc = "done" /\ inject_call.mutation_ok /\ inject_call.inject_errs = {}
               => inject_call.collect_rpcs = inject_call.inject_rpcs
        /\ ~inject_call.mutation_ok \/ inject_call.inject_errs # {} =>
               /\ inject_call.collect_rpcs = {}
               /\ inject_call.pc = "done" =>
                      inject_call.sent = <<[prev_epoch |-> inject_call.prev_epoch,
                                            result |-> "Err"]>>
        /\ Len(inject_call.sent) = IF inject_call.pc = "done" THEN 1 ELSE 0
        /\ \A i \in 1..Len(inject_call.sent) :
               inject_call.sent[i].prev_epoch = inject_call.prev_epoch

\* Both phases ran on a fleet where one worker has actors to collect and
\* another has none: the RPCs went to the first only, and the collect
\* succeeded.
TwoPhaseWitness ==
    /\ inject_call.pc = "done"
    /\ Collecting # {} /\ Collecting # Workers
    /\ inject_call.collect_rpcs = Collecting
    /\ inject_call.inject_rpcs = Collecting
    /\ inject_call.sent[1].result = "Ok"
\* ---------------------------------------------------------------- C33
\* The node a step of the loop pushes to the pipeline.
Pushed == command_ctx_queue'[Len(command_ctx_queue')]

\* C33: the scheduled queue is FIFO. Of two commands scheduled one after
\* the other (Notifiers n < m of schedule_command) the later one has no
\* epoch before the earlier one has a smaller epoch (or was aborted); the
\* loop takes the entry at the front and leaves the others in their order,
\* and on an empty buffer takes a Plain barrier without notifiers, the
\* buffer staying empty; an entry is added behind the entries present.
ScheduledFifo ==
    /\ [](\A n, m \in ScheduledIds :
             n < m /\ notified[m].curr_epoch > 0 =>
                 \/ notified[n].curr_epoch \in 1..(notified[m].curr_epoch - 1)
                 \/ notified[n].failed_err = "Scheduled barrier abort.")
    /\ [][Injects =>
              IF buffer = <<>>
              THEN /\ Pushed.command = "Plain"
                   /\ Pushed.notifiers = {}
                   /\ buffer' = <<>>
              ELSE /\ Pushed.command = Head(buffer).command
                   /\ Pushed.notifiers = Head(buffer).notifiers
                   /\ buffer' = Tail(buffer)]_vars
    /\ [][Len(buffer') = Len(buffer) + 1 =>
              SubSeq(buffer', 1, Len(buffer)) = buffer]_vars

\* Two commands were scheduled, a Plain one and then a
\* CreateMaterializedView, and both are in the pipeline in that order.
ScheduledFifoWitness ==
    /\ Len(command_ctx_queue) = 2
    /\ command_ctx_queue[1].notifiers = {1}
    /\ command_ctx_queue[1].command = "Plain"
    /\ command_ctx_queue[2].notifiers = {2}
    /\ command_ctx_queue[2].command = "CreateMaterializedView"
    /\ notified[1].curr_epoch < notified[2].curr_epoch

\* ---------------------------------------------------------------- C34
\* C34: no wake-up is lost. A wait_one that awaits its wake-up does so on an
\* empty buffer only: it starts to wait only when the buffer is empty at
\* its first poll, and the push or attach that puts an entry into the empty
\* buffer wakes it; it is woken by nothing else, and no push onto a
\* buffer that has an entry sends a wake-up.
NoLostWakeup ==
    /\ [](wait_one_fut = "Awaiting" => buffer = <<>>)
    /\ [][wait_one_fut = "None" /\ wait_one_fut' = "Awaiting" => buffer = <<>>]_vars
    /\ [][wait_one_fut = "Awaiting" /\ buffer = <<>> /\ buffer' # <<>> =>
              wait_one_fut' = "Woken"]_vars
    /\ [][wait_one_fut # "Woken" /\ wait_one_fut' = "Woken" =>
              buffer = <<>> /\ Len(buffer') = 1]_vars

\* A wait_one that found the buffer empty was woken by a push, whose entry
\* is in the buffer, and a second entry was pushed behind it.
NoLostWakeupWitness ==
    /\ wait_one_fut = "Woken"
    /\ Len(buffer) = 2
    /\ \E n \in ScheduledIds : buffer[1].notifiers = {n}

\* ---------------------------------------------------------------- C35
\* The Notifier a wait_for_next_barrier_to_collect call of this step made.
Attached == {n \in AttachIds : notified[n].curr_epoch = -1 /\ notified'[n].curr_epoch = 0}

\* C35: attach_notifiers on a buffer with entries adds the notifiers to the
\* first entry and changes nothing else of the buffer: not the command of
\* that entry, not the other entries, their number or order; and it sends
\* no wake-up. On an empty buffer it makes one Plain entry with just these
\* notifiers and wakes a waiting wait_one.
AttachFrame ==
    [][Attached # {} =>
          IF buffer # <<>>
          THEN /\ Len(buffer') = Len(buffer)
               /\ buffer'[1].command = buffer[1].command
               /\ buffer'[1].notifiers = buffer[1].notifiers \cup Attached
               /\ \A i \in 2..Len(buffer) : buffer'[i] = buffer[i]
               /\ wait_one_fut' = wait_one_fut
          ELSE /\ buffer' = <<[command |-> "Plain", notifiers |-> Attached]>>
               /\ wait_one_fut = "Awaiting" => wait_one_fut' = "Woken"]_vars

\* A Notifier was attached to the DropMaterializedView entry at the front
\* of a buffer of two entries.
AttachFrameWitness ==
    /\ Len(buffer) = 2
    /\ buffer[1].command = "DropMaterializedView"
    /\ \E n \in AttachIds : buffer[1].notifiers = {1, n}
    /\ buffer[2].notifiers = {2}

\* ---------------------------------------------------------------- C36
\* The Notifiers that got the abort error.
Aborted == {n \in AllIds : notified[n].failed_err = "Scheduled barrier abort."}

\* A step in which abort() failed some Notifier.
Aborts == \E n \in AllIds :
              /\ notified[n].failed_err # "Scheduled barrier abort."
              /\ notified'[n].failed_err = "Scheduled barrier abort."

\* C36: abort() leaves the buffer empty and calls notify_collection_failed
\* with the abort error on every notifier of every entry it drained, and
\* on nothing else; the pipeline, the epoch and the flags of the loop stay
\* as they are; and an aborted Notifier never gets to_send, collected or
\* finished, before or after.
AbortDrains ==
    /\ [][Aborts =>
              /\ buffer' = <<>>
              /\ \A n \in AllIds :
                     notified'[n] =
                         IF n \in Scheduled
                         THEN [notified[n] EXCEPT !.failed = @ + 1,
                                                  !.failed_err = "Scheduled barrier abort."]
                         ELSE notified[n]
              /\ UNCHANGED <<command_ctx_queue, in_flight_prev_epoch, persisted_prev_epoch,
                             is_recovery, is_build_actor, tracker, tasks>>]_vars
    /\ [](\A n \in Aborted :
             /\ notified[n].failed = 1
             /\ notified[n].to_send = 0
             /\ notified[n].collected = 0
             /\ notified[n].finished = 0
             /\ n \notin Scheduled
             /\ \A node \in Nodes : n \notin node.notifiers)

\* Two entries, one of them with two notifiers, were aborted while a
\* barrier is in the pipeline.
AbortDrainsWitness ==
    /\ Cardinality(Aborted) = 3
    /\ buffer = <<>>
    /\ command_ctx_queue # <<>>
\* ---------------------------------------------------------------- C37
\* How many completions of the barrier with prev_epoch e are still to be
\* received: tasks that have not sent and messages in the channel.
CompletionsOf(e) ==
    Cardinality({t \in tasks : t.prev_epoch = e}) +
    Cardinality({i \in 1..Len(barrier_complete_rx) : barrier_complete_rx[i].prev_epoch = e})

\* C37: one completion per node. While the loop runs, every InFlight node
\* of the pipeline has exactly one completion still to come and every
\* other node none; every completion still to come is that of exactly one
\* node of the pipeline, which is InFlight; so the pipeline is not empty
\* when a completion is received.
OneCompletionPerNode ==
    loop = "select" =>
        /\ \A i \in 1..Len(command_ctx_queue) :
               CompletionsOf(command_ctx_queue[i].prev_epoch) =
                   IF command_ctx_queue[i].states = "InFlight" THEN 1 ELSE 0
        /\ \A t \in Sent :
               /\ Cardinality({i \in 1..Len(command_ctx_queue) :
                                  command_ctx_queue[i].prev_epoch = t.prev_epoch}) = 1
               /\ \E node \in Nodes : /\ node.prev_epoch = t.prev_epoch
                                       /\ node.states = "InFlight"
        /\ barrier_complete_rx # <<>> => command_ctx_queue # <<>>

\* The completion of the second node was applied before that of the first,
\* which is in the channel.
OneCompletionPerNodeWitness ==
    /\ loop = "select"
    /\ Len(command_ctx_queue) = 2
    /\ command_ctx_queue[1].states = "InFlight"
    /\ command_ctx_queue[2].states = "Complete"
    /\ Len(barrier_complete_rx) = 1
    /\ barrier_complete_rx[1].prev_epoch = command_ctx_queue[1].prev_epoch

\* ---------------------------------------------------------------- C38
\* C38: between two handlers of the loop the head of the pipeline is not
\* Complete: the commit pass went on until the pipeline was empty or its
\* head was InFlight or Fail.
HeadNotComplete ==
    loop = "select" /\ command_ctx_queue # <<>> =>
        Head(command_ctx_queue).states # "Complete"

\* A commit pass has committed a barrier; the head is now an InFlight node
\* that has a Complete node behind it.
HeadNotCompleteWitness ==
    /\ loop = "select"
    /\ Len(commit_epoch_calls) >= 1
    /\ Len(command_ctx_queue) = 2
    /\ command_ctx_queue[1].states = "InFlight"
    /\ command_ctx_queue[2].states = "Complete"
\* ---------------------------------------------------------------- C39
\* Positions of the pipeline whose command is not Plain.
Building == {i \in 1..Len(command_ctx_queue) : command_ctx_queue[i].command # "Plain"}

\* C39: between two handlers of the loop is_build_actor is set only while
\* the pipeline holds a node with a command other than Plain, which then is
\* the only such node and the last node of the pipeline.
BuildFlagHasNode ==
    loop = "select" /\ is_build_actor =>
        Building = {Len(command_ctx_queue)} /\ command_ctx_queue # <<>>

\* ---------------------------------------------------------------- C40
\* The loop runs with recovery enabled and has nothing to wait for: the
\* pipeline is empty, no task has a completion to send, the channel is
\* empty and no recovery is under way. Only a scheduling branch of the
\* select can be taken from here.
Quiescent ==
    /\ loop = "select"
    /\ enable_recovery
    /\ command_ctx_queue = <<>>
    /\ tasks = {}
    /\ barrier_complete_rx = <<>>
    /\ ~is_recovery

\* C40: admission does not stay false: when the loop has nothing left to
\* wait for, can_inject_barrier holds, so that the next tick or scheduled
\* entry is taken.
AdmissionReturns ==
    Quiescent =>
        can_inject_barrier(is_recovery, is_build_actor, command_ctx_queue,
                           in_flight_barrier_nums)
====
